---------------------------- MODULE Spec2Model ----------------------------
(***************************************************************************)
(* Model of the Express REST API of visigence/vision: the auth endpoints   *)
(* (register, login, refresh, logout), the authorization middleware, the   *)
(* field whitelisting middleware and the user and message controllers.     *)
(*                                                                         *)
(* The database tables are the state.  Every request in flight occupies a  *)
(* slot; a handler is cut at its awaited database statements, so that one  *)
(* action is one statement together with the synchronous code that follows *)
(* it up to the next await.                                                *)
(*                                                                         *)
(* Time is an integer clock.  One clock unit stands for the lifetime of an *)
(* access token; the seven days of a refresh token are scaled down to a    *)
(* few units, which keeps the order of all instants the code compares.     *)
(***************************************************************************)
EXTENDS Integers, Sequences, FiniteSets, TLC

VARIABLES
  env,             \* process.env: the configured lifetimes
  now,             \* the wall clock (new Date(), NOW())
  users,           \* table users, by id
  refresh_tokens,  \* table refresh_tokens: a set of rows, token UNIQUE
  messages,        \* table messages, by id
  message_tags,    \* table message_tags: a set of <<message_id, tag_id>>
  audit_logs,      \* table audit_logs: the rows in insertion order
  issued,          \* every token a response has handed to a client
  reqs             \* the requests in flight and their last response, by slot

vars == <<env, now, users, refresh_tokens, messages, message_tags,
          audit_logs, issued, reqs>>

db == <<users, refresh_tokens, messages, message_tags>>

---------------------------------------------------------------------------
(* Bounds of the model *)

MaxTime == 3
MaxRefreshRows == 2
MaxIssued == 3
MaxLoginCount == 1
MaxAudit == 1

(* Lifetimes, in clock units *)

AccessTTL == 1
LongAccessTTL == 2
RefreshTTL == 2
PersistTTL == 2
LongRefreshTTL == 4

---------------------------------------------------------------------------
(* Identifiers and enumerations *)

UserIds == {"u1", "u2", "u3", "u4"}
MessageIds == {"m1", "m2", "m3"}
TagIds == {"t1"}
Slots == {"r1"}
RaceSlots == {"r1", "r2"}

Roles == {"user", "moderator", "admin", "super_admin"}
UserStatuses == {"active", "inactive", "suspended", "pending_verification"}

None == "none"
NoUser == [id |-> None]
Deleted == [id |-> "deleted"]
NoToken == [secret |-> None]
NoMessage == [id |-> None]

---------------------------------------------------------------------------
(* jsonwebtoken *)

\* jwt.sign({ userId }, secret, { expiresIn }): the token is a function of
\* the secret, the payload and the second it is signed in.
JwtSign(secret, userId, ttl, t) ==
  [secret |-> secret, userId |-> userId, iat |-> t, exp |-> t + ttl]

\* jwt.verify(token, secret): the signature is checked before the expiry.
JwtVerify(token, secret, t) ==
  IF token = NoToken \/ token.secret # secret THEN "JsonWebTokenError"
  ELSE IF t >= token.exp THEN "TokenExpiredError"
  ELSE "ok"

---------------------------------------------------------------------------
(* Client inputs *)

\* Email addresses as typed by a client, and what email.toLowerCase().trim()
\* makes of them.
EmailInputs == {"ann@x.io", "Ann@X.io", "root@x.io", "new@x.io"}

LowerTrim(e) ==
  CASE e = "Ann@X.io" -> "ann@x.io"
    [] OTHER -> e

\* Passwords, by the character classes the strength checks look at.
Passwords ==
  { [text |-> "Passw0rd", len |-> 8, lower |-> TRUE, upper |-> TRUE, digit |-> TRUE],
    [text |-> "N3wSecret", len |-> 9, lower |-> TRUE, upper |-> TRUE, digit |-> TRUE],
    [text |-> "short1A", len |-> 7, lower |-> TRUE, upper |-> TRUE, digit |-> TRUE] }

PwOld == CHOOSE p \in Passwords : p.text = "Passw0rd"
PwNew == CHOOSE p \in Passwords : p.text = "N3wSecret"
PwWeak == CHOOSE p \in Passwords : p.text = "short1A"
NoPassword == [text |-> None]

\* bcrypt.hash(password, 14) and bcrypt.compare(password, hash)
BcryptHash(p) == <<"$2a$14$", p.text>>
BcryptCompare(p, h) == p # NoPassword /\ h = BcryptHash(p)

\* const passwordRegex = /^(?=.*[a-z])(?=.*[A-Z])(?=.*\d).{8,}$/
PasswordRegexTest(p) == p.lower /\ p.upper /\ p.digit /\ p.len >= 8

---------------------------------------------------------------------------
(* Rows *)

UserRow(id, email, username, hash, role, status) ==
  [id |-> id, email |-> email, username |-> username, password_hash |-> hash,
   first_name |-> "Fn", last_name |-> "Ln", bio |-> "", avatar_url |-> "",
   role |-> role, status |-> status, login_count |-> 0]

\* users[id] is NoUser for an id no row has had yet, Deleted for a row that
\* DELETE FROM users removed: gen_random_uuid() never gives an id twice.
UserExists(id) == id \in UserIds /\ users[id].id = id

\* SELECT id, email, username, first_name, last_name, role, status, avatar_url
\* FROM users WHERE id = $1 AND status = 'active'
\* The lookup without AND status = 'active'
SelectActiveUser_AnyStatus(id) ==
  IF UserExists(id)
  THEN [id |-> id, role |-> users[id].role, status |-> users[id].status,
        username |-> users[id].username]
  ELSE NoUser

SelectActiveUser(id) ==
  IF UserExists(id) /\ users[id].status = "active"
  THEN [id |-> id, role |-> users[id].role, status |-> users[id].status,
        username |-> users[id].username]
  ELSE NoUser

\* SELECT ... FROM refresh_tokens WHERE token = $1
SelectRefreshToken(token) ==
  IF \E row \in refresh_tokens : row.token = token
  THEN CHOOSE row \in refresh_tokens : row.token = token
  ELSE [token |-> NoToken]

---------------------------------------------------------------------------
(* Requests *)

NoBody == [none |-> TRUE]
NoLoc == [none |-> TRUE]
NoOut == [accessToken |-> NoToken, refreshToken |-> NoToken]

Idle ==
  [op |-> "idle", pc |-> "idle", token |-> NoToken, user |-> NoUser, id |-> None,
   body |-> NoBody, loc |-> NoLoc, status |-> 0, message |-> "", out |-> NoOut,
   raw |-> NoBody, wrote |-> {}, passed |-> FALSE, ran |-> FALSE, audit |-> <<>>]

NewReq(op, pc, token, id, body) ==
  [Idle EXCEPT !.op = op, !.pc = pc, !.token = token, !.id = id, !.body = body,
               !.raw = body]

Free(r) == reqs[r].pc \in {"idle", "done"}

\* res.status(code).json({ success, message, data }).  The handler's local
\* variables end with it; the request as it was sent (raw) stays with the
\* response.
Respond(q, status, message, out) ==
  [q EXCEPT !.pc = "done", !.status = status, !.message = message, !.out = out,
            !.loc = NoLoc, !.body = NoBody]

Wrote(q, table) == [q EXCEPT !.wrote = @ \cup {table}]

\* The tokens a client can put into a request: the ones some response has
\* handed out, a token signed with a key the server does not know, or none.
ForgedToken == [secret |-> "unknown", userId |-> "u1", iat |-> 0, exp |-> MaxTime + 2]
Presentable == issued \cup {ForgedToken, NoToken}
\* An Authorization header carries an access token, a body a refresh token;
\* a token in the place of the other kind fails as the forged one does.
Bearers == {t \in issued : t.secret = "JWT_SECRET"} \cup {ForgedToken, NoToken}
RefreshInputs == {t \in issued : t.secret = "JWT_REFRESH_SECRET"} \cup {ForgedToken, NoToken}

Hand(out) == {t \in {out.accessToken, out.refreshToken} : t # NoToken}

---------------------------------------------------------------------------
(* utils/auditLogger.js *)

AuditEntry(userId, action, resourceType, resourceId) ==
  [user_id |-> userId, action |-> action, resource_type |-> resourceType,
   resource_id |-> resourceId]

\* createAuditLog without its try/catch: a failing insert throws into the
\* handler's catch, which answers 500
CreateAuditLog_Throws(r, q, entry, ok) ==
  /\ ok => audit_logs < MaxAudit
  /\ audit_logs' = IF ok THEN audit_logs + 1 ELSE audit_logs
  /\ reqs' = [reqs EXCEPT ![r] =
                IF ok THEN [q EXCEPT !.audit = Append(@, [entry |-> entry, ok |-> ok])]
                ELSE [q EXCEPT !.pc = "done", !.status = 500,
                               !.message = "Internal server error",
                               !.audit = Append(@, [entry |-> entry, ok |-> ok])]]

\* createAuditLog: one INSERT INTO audit_logs; an error of the insert is
\* caught and logged, never thrown.  ok says whether the insert succeeded.
\* The request keeps what it tried to log.
CreateAuditLog(r, q, entry, ok) ==
  /\ ok => audit_logs < MaxAudit
  /\ audit_logs' = IF ok THEN audit_logs + 1 ELSE audit_logs
  /\ reqs' = [reqs EXCEPT ![r] =
                [q EXCEPT !.audit = Append(@, [entry |-> entry, ok |-> ok])]]

---------------------------------------------------------------------------
(* controllers/authController.js *)

\* generateTokens(userId)
GenerateTokens(userId) ==
  [accessToken |-> JwtSign("JWT_SECRET", userId, env.JWT_EXPIRES_IN, now),
   refreshToken |-> JwtSign("JWT_REFRESH_SECRET", userId, env.JWT_REFRESH_EXPIRES_IN, now)]

\* storeRefreshToken(userId, refreshToken): the row it inserts
RefreshRow(userId, token) ==
  [token |-> token, user_id |-> userId, expires_at |-> now + PersistTTL,
   is_revoked |-> FALSE]

\* The INSERT fails on token UNIQUE and on the foreign key user_id.
CanStoreRefreshToken(userId, token) ==
  /\ \A row \in refresh_tokens : row.token # token
  /\ UserExists(userId)

\* The check of the row without its is_revoked column
TokenRecordRejected_IgnoresRevoked(tokenRecord) ==
  \/ tokenRecord.token = NoToken
  \/ now > tokenRecord.expires_at

\* The check of the row without its expires_at column
TokenRecordRejected_IgnoresExpiry(tokenRecord) ==
  \/ tokenRecord.token = NoToken
  \/ tokenRecord.is_revoked

\* if (!tokenRecord || tokenRecord.is_revoked || new Date() > tokenRecord.expires_at)
TokenRecordRejected(tokenRecord) ==
  \/ tokenRecord.token = NoToken
  \/ tokenRecord.is_revoked
  \/ now > tokenRecord.expires_at

(* login *)

StartLogin(r, email, password) ==
  /\ Free(r)
  /\ \A id \in UserIds :
       UserExists(id) /\ users[id].email = LowerTrim(email)
         => users[id].login_count < MaxLoginCount
  /\ reqs' = [reqs EXCEPT ![r] =
               NewReq("login", "login_select", NoToken, None,
                      [email |-> email, password |-> password])]
  /\ UNCHANGED <<env, now, db, audit_logs, issued>>

\* login without the test of user.status
LoginSelect_NoStatusCheck(r) ==
  LET q == reqs[r]
      sanitizedEmail == LowerTrim(q.body.email)
      found == {id \in UserIds : UserExists(id) /\ users[id].email = sanitizedEmail}
  IN /\ q.pc = "login_select"
     /\ reqs' = [reqs EXCEPT ![r] =
          IF found = {} THEN Respond(q, 401, "Invalid email or password", NoOut)
          ELSE LET user == users[CHOOSE id \in found : TRUE]
               IN IF ~BcryptCompare(q.body.password, user.password_hash)
                  THEN Respond(q, 401, "Invalid email or password", NoOut)
                  ELSE [q EXCEPT !.pc = "login_update", !.ran = TRUE,
                                 !.loc = [user |-> user]]]
     /\ UNCHANGED <<env, now, db, audit_logs, issued>>

\* SELECT ... FROM users WHERE email = $1, the status check and bcrypt.compare
LoginSelect(r) ==
  LET q == reqs[r]
      sanitizedEmail == LowerTrim(q.body.email)
      found == {id \in UserIds : UserExists(id) /\ users[id].email = sanitizedEmail}
  IN /\ q.pc = "login_select"
     /\ reqs' = [reqs EXCEPT ![r] =
          IF found = {} THEN Respond(q, 401, "Invalid email or password", NoOut)
          ELSE LET user == users[CHOOSE id \in found : TRUE]
               IN IF user.status # "active"
                  THEN Respond(q, 401, "Account is not active", NoOut)
                  ELSE IF ~BcryptCompare(q.body.password, user.password_hash)
                  THEN Respond(q, 401, "Invalid email or password", NoOut)
                  ELSE [q EXCEPT !.pc = "login_update", !.ran = TRUE,
                                 !.loc = [user |-> user]]]
     /\ UNCHANGED <<env, now, db, audit_logs, issued>>

\* UPDATE users SET last_login = NOW(), login_count = ${user.login_count + 1}
\* (the rows of the model keep no timestamps of their own writing)
LoginUpdate(r) ==
  LET q == reqs[r]
      id == q.loc.user.id
  IN /\ q.pc = "login_update"
     /\ users' = IF UserExists(id)
                 THEN [users EXCEPT ![id].login_count = q.loc.user.login_count + 1]
                 ELSE users
     /\ reqs' = [reqs EXCEPT ![r] = [Wrote(q, "users") EXCEPT !.pc = "login_store"]]
     /\ UNCHANGED <<env, now, refresh_tokens, messages, message_tags, audit_logs, issued>>

\* generateTokens and storeRefreshToken; a failing INSERT ends in the catch
LoginStore(r) ==
  LET q == reqs[r]
      id == q.loc.user.id
      tokens == GenerateTokens(id)
  IN /\ q.pc = "login_store"
     /\ IF CanStoreRefreshToken(id, tokens.refreshToken)
        THEN /\ refresh_tokens' = refresh_tokens \cup {RefreshRow(id, tokens.refreshToken)}
             /\ reqs' = [reqs EXCEPT ![r] =
                  [Wrote(q, "refresh_tokens") EXCEPT !.pc = "login_audit",
                                                     !.loc = [user |-> q.loc.user, tokens |-> tokens]]]
        ELSE /\ UNCHANGED refresh_tokens
             /\ reqs' = [reqs EXCEPT ![r] = Respond(q, 500, "Internal server error", NoOut)]
     /\ UNCHANGED <<env, now, users, messages, message_tags, audit_logs, issued>>

LoginAudit(r) ==
  LET q == reqs[r]
      id == q.loc.user.id
  IN /\ q.pc = "login_audit"
     /\ \E ok \in BOOLEAN :
          CreateAuditLog(r, [q EXCEPT !.pc = "login_respond"],
                         AuditEntry(id, "login", "user", id), ok)
     /\ UNCHANGED <<env, now, db, issued>>

LoginRespond(r) ==
  LET q == reqs[r]
  IN /\ q.pc = "login_respond"
     /\ reqs' = [reqs EXCEPT ![r] = Respond(q, 200, "Login successful", q.loc.tokens)]
     /\ issued' = issued \cup Hand(q.loc.tokens)
     /\ UNCHANGED <<env, now, db, audit_logs>>

(* refreshToken *)

StartRefresh(r, token) ==
  /\ Free(r)
  /\ reqs' = [reqs EXCEPT ![r] =
               NewReq("refresh", "refresh_token", NoToken, None,
                      [refreshToken |-> token])]
  /\ UNCHANGED <<env, now, db, audit_logs, issued>>

\* jwt.verify with the refresh secret, then SELECT user_id, expires_at,
\* is_revoked FROM refresh_tokens WHERE token = $1 and the check of the row
RefreshSelectToken(r) ==
  LET q == reqs[r]
      token == q.body.refreshToken
      tokenRecord == SelectRefreshToken(token)
  IN /\ q.pc = "refresh_token"
     /\ reqs' = [reqs EXCEPT ![r] =
          IF token = NoToken
          THEN Respond(q, 401, "Refresh token required", NoOut)
          ELSE IF JwtVerify(token, "JWT_REFRESH_SECRET", now) # "ok"
          THEN Respond(q, 401, "Invalid refresh token", NoOut)
          ELSE IF TokenRecordRejected(tokenRecord)
          THEN Respond(q, 401, "Invalid or expired refresh token", NoOut)
          ELSE [q EXCEPT !.pc = "refresh_user", !.loc = [userId |-> token.userId]]]
     /\ UNCHANGED <<env, now, db, audit_logs, issued>>

\* SELECT ... FROM users WHERE id = $1 AND status = 'active', then jwt.sign
RefreshSelectUser(r) ==
  LET q == reqs[r]
      user == SelectActiveUser(q.loc.userId)
      newAccessToken == JwtSign("JWT_SECRET", user.id, env.JWT_EXPIRES_IN, now)
  IN /\ q.pc = "refresh_user"
     /\ IF user = NoUser
        THEN /\ reqs' = [reqs EXCEPT ![r] =
                  Respond(q, 401, "User not found or inactive", NoOut)]
             /\ UNCHANGED issued
        ELSE /\ reqs' = [reqs EXCEPT ![r] =
                  Respond(q, 200, "", [accessToken |-> newAccessToken,
                                       refreshToken |-> NoToken])]
             /\ issued' = issued \cup {newAccessToken}
     /\ UNCHANGED <<env, now, db, audit_logs>>

---------------------------------------------------------------------------
(* middleware/auth.js *)

\* requireRole that only asks for a principal
RequireRole_AnyRole(user, roles) ==
  IF user = NoUser THEN 401 ELSE 0

\* requireRole(roles): 0 stands for next()
RequireRole(user, roles) ==
  IF user = NoUser THEN 401
  ELSE IF user.role \notin roles THEN 403
  ELSE 0

RequireAdmin(user) == RequireRole(user, {"admin"})
RequireModerator(user) == RequireRole(user, {"admin", "moderator"})

\* The catch block without its test of error.name: every failure of
\* jwt.verify answered as an invalid token
AuthenticateResult_ExpiredAsInvalid(token) ==
  LET v == JwtVerify(token, "JWT_SECRET", now)
  IN IF token = NoToken THEN <<401, "Access token required">>
     ELSE IF v # "ok" THEN <<403, "Invalid token">>
     ELSE IF SelectActiveUser(token.userId) = NoUser
     THEN <<401, "Invalid token or user not found">>
     ELSE <<0, "">>

\* The answer of authenticateToken to a bearer token at this moment:
\* <<status, message>>, or <<0, "">> when it attaches the user and calls next().
AuthenticateResult(token) ==
  LET v == JwtVerify(token, "JWT_SECRET", now)
  IN IF token = NoToken THEN <<401, "Access token required">>
     ELSE IF v = "TokenExpiredError" THEN <<401, "Token expired">>
     ELSE IF v # "ok" THEN <<403, "Invalid token">>
     ELSE IF SelectActiveUser(token.userId) = NoUser
     THEN <<401, "Invalid token or user not found">>
     ELSE <<0, "">>

---------------------------------------------------------------------------
(* Route parameters *)

BadUuid == "not-a-uuid"
IdParams == UserIds \cup {BadUuid}

\* validateUUID('id'): param('id').isUUID()
IsUuid(id) == id # BadUuid

---------------------------------------------------------------------------
(* controllers/userController.js: updatePassword *)

\* const canUpdate = req.user.role === 'admin' || req.user.id === id
CanUpdatePassword(user, id) == user.role = "admin" \/ user.id = id

\* validateUUID and the synchronous head of updatePassword
EnterUpdatePassword(q) ==
  IF ~IsUuid(q.id) THEN Respond(q, 400, "Validation failed", NoOut)
  ELSE IF ~PasswordRegexTest(q.body.newPassword)
  THEN Respond([q EXCEPT !.ran = TRUE], 400, "Password too weak", NoOut)
  ELSE IF ~CanUpdatePassword(q.user, q.id)
  THEN Respond([q EXCEPT !.ran = TRUE], 403, "Insufficient permissions", NoOut)
  ELSE [q EXCEPT !.ran = TRUE, !.pc = "pw_select"]

StartUpdatePassword(r, token, id, currentPassword, newPassword) ==
  /\ Free(r)
  /\ reqs' = [reqs EXCEPT ![r] =
               NewReq("updatePassword", "auth", token, id,
                      [currentPassword |-> currentPassword,
                       newPassword |-> newPassword])]
  /\ UNCHANGED <<env, now, db, audit_logs, issued>>

\* SELECT id, password_hash, username FROM users WHERE id = $1, and for a
\* caller who is not admin the check of the current password
PwSelect(r) ==
  LET q == reqs[r]
  IN /\ q.pc = "pw_select"
     /\ reqs' = [reqs EXCEPT ![r] =
          IF ~UserExists(q.id) THEN Respond(q, 404, "User not found", NoOut)
          ELSE IF q.user.role # "admin" /\ q.body.currentPassword = NoPassword
          THEN Respond(q, 400, "Current password is required", NoOut)
          ELSE IF q.user.role # "admin"
                  /\ ~BcryptCompare(q.body.currentPassword, users[q.id].password_hash)
          THEN Respond(q, 400, "Current password is incorrect", NoOut)
          ELSE [q EXCEPT !.pc = "pw_update"]]
     /\ UNCHANGED <<env, now, db, audit_logs, issued>>

\* UPDATE users SET password_hash = $1, updated_at = NOW() WHERE id = $2
PwUpdate(r) ==
  LET q == reqs[r]
  IN /\ q.pc = "pw_update"
     /\ users' = IF UserExists(q.id)
                 THEN [users EXCEPT ![q.id].password_hash = BcryptHash(q.body.newPassword)]
                 ELSE users
     /\ reqs' = [reqs EXCEPT ![r] = [Wrote(q, "users") EXCEPT !.pc = "pw_revoke"]]
     /\ UNCHANGED <<env, now, refresh_tokens, messages, message_tags, audit_logs, issued>>

\* UPDATE refresh_tokens SET is_revoked = true WHERE user_id = $1
RevokeAllForUser(id) ==
  {IF row.user_id = id THEN [row EXCEPT !.is_revoked = TRUE] ELSE row :
     row \in refresh_tokens}

PwRevoke(r) ==
  LET q == reqs[r]
  IN /\ q.pc = "pw_revoke"
     /\ refresh_tokens' = RevokeAllForUser(q.id)
     /\ reqs' = [reqs EXCEPT ![r] = [Wrote(q, "refresh_tokens") EXCEPT !.pc = "pw_audit"]]
     /\ UNCHANGED <<env, now, users, messages, message_tags, audit_logs, issued>>

PwAudit(r) ==
  LET q == reqs[r]
  IN /\ q.pc = "pw_audit"
     /\ \E ok \in BOOLEAN :
          CreateAuditLog(r, [q EXCEPT !.pc = "pw_respond"],
                         AuditEntry(q.user.id, "password_reset", "user", q.id), ok)
     /\ UNCHANGED <<env, now, db, issued>>

PwRespond(r) ==
  LET q == reqs[r]
  IN /\ q.pc = "pw_respond"
     /\ reqs' = [reqs EXCEPT ![r] = Respond(q, 200, "Password updated successfully", NoOut)]
     /\ UNCHANGED <<env, now, db, audit_logs, issued>>

---------------------------------------------------------------------------
(* controllers/authController.js: logout and getProfile *)

StartLogout(r, token, refreshToken) ==
  /\ Free(r)
  /\ reqs' = [reqs EXCEPT ![r] =
               NewReq("logout", "auth", token, None,
                      [refreshToken |-> refreshToken])]
  /\ UNCHANGED <<env, now, db, audit_logs, issued>>

EnterLogout(q) ==
  [q EXCEPT !.ran = TRUE,
            !.pc = IF q.body.refreshToken # NoToken THEN "logout_revoke"
                   ELSE "logout_audit"]

\* UPDATE refresh_tokens SET is_revoked = true WHERE token = $1
RevokeToken(token) ==
  {IF row.token = token THEN [row EXCEPT !.is_revoked = TRUE] ELSE row :
     row \in refresh_tokens}

LogoutRevoke(r) ==
  LET q == reqs[r]
  IN /\ q.pc = "logout_revoke"
     /\ refresh_tokens' = RevokeToken(q.body.refreshToken)
     /\ reqs' = [reqs EXCEPT ![r] =
                  [Wrote(q, "refresh_tokens") EXCEPT !.pc = "logout_audit"]]
     /\ UNCHANGED <<env, now, users, messages, message_tags, audit_logs, issued>>

\* logout without its call of createAuditLog
LogoutAudit_Skipped(r) ==
  LET q == reqs[r]
  IN /\ q.pc = "logout_audit"
     /\ reqs' = [reqs EXCEPT ![r] = [q EXCEPT !.pc = "logout_respond"]]
     /\ UNCHANGED <<env, now, db, audit_logs, issued>>

\* if (req.user) await createAuditLog(req.user.id, 'logout', 'user', req.user.id, ...)
LogoutAudit(r) ==
  LET q == reqs[r]
  IN /\ q.pc = "logout_audit"
     /\ \E ok \in BOOLEAN :
          CreateAuditLog(r, [q EXCEPT !.pc = "logout_respond"],
                         AuditEntry(q.user.id, "logout", "user", q.user.id), ok)
     /\ UNCHANGED <<env, now, db, issued>>

LogoutRespond(r) ==
  LET q == reqs[r]
  IN /\ q.pc = "logout_respond"
     /\ reqs' = [reqs EXCEPT ![r] = Respond(q, 200, "Logout successful", NoOut)]
     /\ UNCHANGED <<env, now, db, audit_logs, issued>>

StartProfile(r, token) ==
  /\ Free(r)
  /\ reqs' = [reqs EXCEPT ![r] = NewReq("profile", "auth", token, None, NoBody)]
  /\ UNCHANGED <<env, now, db, audit_logs, issued>>

EnterProfile(q) == [q EXCEPT !.ran = TRUE, !.pc = "profile_select"]

\* SELECT ... FROM users WHERE id = ${req.user.id}
ProfileSelect(r) ==
  LET q == reqs[r]
  IN /\ q.pc = "profile_select"
     /\ reqs' = [reqs EXCEPT ![r] =
          IF ~UserExists(q.user.id) THEN Respond(q, 404, "User not found", NoOut)
          ELSE Respond(q, 200, "", NoOut)]
     /\ UNCHANGED <<env, now, db, audit_logs, issued>>

---------------------------------------------------------------------------
(* controllers/authController.js: register *)

Usernames == {"ann", "root", "neo"}

\* body('email').isEmail().normalizeEmail(): lower case for these addresses
NormalizeEmail(e) ==
  CASE e = "Ann@X.io" -> "ann@x.io"
    [] OTHER -> e

\* validateUserRegistration: the password rule; the other fields of the
\* model's registrations are well formed
RegistrationValid(body) ==
  body.password.len >= 8 /\ body.password.lower /\ body.password.upper
    /\ body.password.digit

\* validatePasswordStrength(password).isValid
PasswordStrengthValid(p) == p.len >= 8 /\ p.lower /\ p.upper /\ p.digit

FreeUserIds == {id \in UserIds : users[id] = NoUser}

StartRegister(r, email, username, password, role) ==
  LET body == [email |-> NormalizeEmail(email), username |-> username,
               password |-> password, role |-> role]
  IN /\ Free(r)
     /\ FreeUserIds # {}
     /\ reqs' = [reqs EXCEPT ![r] =
          IF ~RegistrationValid(body)
          THEN Respond(NewReq("register", "done", NoToken, None, body),
                       400, "Validation failed", NoOut)
          ELSE IF ~PasswordStrengthValid(body.password)
          THEN Respond([NewReq("register", "done", NoToken, None, body)
                          EXCEPT !.ran = TRUE],
                       400, "Password does not meet security requirements", NoOut)
          ELSE [NewReq("register", "reg_select", NoToken, None, body)
                  EXCEPT !.ran = TRUE]]
  /\ UNCHANGED <<env, now, db, audit_logs, issued>>

\* The lookup with WHERE email = $1 only
RegSelect_EmailOnly(r) ==
  LET q == reqs[r]
      email == LowerTrim(q.body.email)
      existing == {id \in UserIds : UserExists(id) /\ users[id].email = email}
  IN /\ q.pc = "reg_select"
     /\ reqs' = [reqs EXCEPT ![r] =
          IF existing # {}
          THEN Respond(q, 400, "User with this email or username already exists", NoOut)
          ELSE [q EXCEPT !.pc = "reg_insert"]]
     /\ UNCHANGED <<env, now, db, audit_logs, issued>>

\* SELECT id FROM users WHERE email = $1 OR username = $2
RegSelect(r) ==
  LET q == reqs[r]
      email == LowerTrim(q.body.email)
      existing == {id \in UserIds : UserExists(id)
                     /\ (users[id].email = email \/ users[id].username = q.body.username)}
  IN /\ q.pc = "reg_select"
     /\ reqs' = [reqs EXCEPT ![r] =
          IF existing # {}
          THEN Respond(q, 400, "User with this email or username already exists", NoOut)
          ELSE [q EXCEPT !.pc = "reg_insert"]]
     /\ UNCHANGED <<env, now, db, audit_logs, issued>>

\* INSERT INTO users (...) VALUES (..., 'user', 'active', true) RETURNING ...;
\* email and username are UNIQUE
RegInsert(r) ==
  LET q == reqs[r]
      email == LowerTrim(q.body.email)
      id == CHOOSE id \in FreeUserIds : TRUE
      clash == \E u \in UserIds : UserExists(u)
                 /\ (users[u].email = email \/ users[u].username = q.body.username)
  IN /\ q.pc = "reg_insert"
     /\ FreeUserIds # {}
     /\ IF clash
        THEN /\ UNCHANGED users
             /\ reqs' = [reqs EXCEPT ![r] = Respond(q, 500, "Internal server error", NoOut)]
        ELSE /\ users' = [users EXCEPT ![id] =
                  UserRow(id, email, q.body.username, BcryptHash(q.body.password),
                          "user", "active")]
             /\ reqs' = [reqs EXCEPT ![r] =
                  [Wrote(q, "users") EXCEPT !.pc = "reg_store", !.loc = [user |-> [id |-> id]]]]
     /\ UNCHANGED <<env, now, refresh_tokens, messages, message_tags, audit_logs, issued>>

RegStore(r) ==
  LET q == reqs[r]
      id == q.loc.user.id
      tokens == GenerateTokens(id)
  IN /\ q.pc = "reg_store"
     /\ IF CanStoreRefreshToken(id, tokens.refreshToken)
        THEN /\ refresh_tokens' = refresh_tokens \cup {RefreshRow(id, tokens.refreshToken)}
             /\ reqs' = [reqs EXCEPT ![r] =
                  [Wrote(q, "refresh_tokens") EXCEPT !.pc = "reg_audit",
                                                     !.loc = [user |-> q.loc.user, tokens |-> tokens]]]
        ELSE /\ UNCHANGED refresh_tokens
             /\ reqs' = [reqs EXCEPT ![r] = Respond(q, 500, "Internal server error", NoOut)]
     /\ UNCHANGED <<env, now, users, messages, message_tags, audit_logs, issued>>

RegAudit(r) ==
  LET q == reqs[r]
      id == q.loc.user.id
  IN /\ q.pc = "reg_audit"
     /\ \E ok \in BOOLEAN :
          CreateAuditLog(r, [q EXCEPT !.pc = "reg_respond"],
                         AuditEntry(id, "create", "user", id), ok)
     /\ UNCHANGED <<env, now, db, issued>>

RegRespond(r) ==
  LET q == reqs[r]
  IN /\ q.pc = "reg_respond"
     /\ reqs' = [reqs EXCEPT ![r] = Respond(q, 201, "User registered successfully", q.loc.tokens)]
     /\ issued' = issued \cup Hand(q.loc.tokens)
     /\ UNCHANGED <<env, now, db, audit_logs>>

---------------------------------------------------------------------------
(* middleware/validation.js: field whitelisting *)

\* A request body is a function from the field names it carries to values.
EmptyBody == [f \in {} |-> ""]
Has(body, f) == f \in DOMAIN body

ALLOWED_USER_UPDATE_FIELDS ==
  {"first_name", "last_name", "username", "bio", "avatar_url", "role", "status"}

ALLOWED_MESSAGE_UPDATE_FIELDS ==
  {"title", "content", "excerpt", "category_id", "status", "is_featured", "is_pinned"}

\* whitelistUserFields that calls next() without replacing req.body
WhitelistUserFields_PassAll(body) == body

\* whitelistUserFields: req.body = the allowed fields that are not undefined
WhitelistUserFields(body) ==
  [f \in (DOMAIN body) \cap ALLOWED_USER_UPDATE_FIELDS |-> body[f]]

\* whitelistMessageFields: the same, and the tags array is preserved
WhitelistMessageFields(body) ==
  [f \in (DOMAIN body) \cap (ALLOWED_MESSAGE_UPDATE_FIELDS \cup {"tags"}) |-> body[f]]

---------------------------------------------------------------------------
(* controllers/userController.js: updateUser *)

\* The bodies of the model's PUT /api/users/:id requests
UserBodies ==
  { EmptyBody,
    [f \in {"bio"} |-> "hi"],
    [f \in {"username"} |-> "zed"],
    [f \in {"username"} |-> "root"],
    [f \in {"role"} |-> "admin"],
    [f \in {"role"} |-> "super_admin"],
    [f \in {"status"} |-> "suspended"],
    [f \in {"status"} |-> "deleted"],
    [f \in {"role", "bio"} |-> IF f = "role" THEN "admin" ELSE "hi"],
    [f \in {"firstName"} |-> "Eve"],
    [f \in {"first_name"} |-> "Eve"],
    [f \in {"id", "email", "password_hash", "login_count"} |->
       CASE f = "id" -> "u3" [] f = "email" -> "evil@x.io"
         [] f = "password_hash" -> "h4x" [] OTHER -> "99"],
    [f \in {"email", "bio"} |-> IF f = "email" THEN "evil@x.io" ELSE "hi"] }

\* validateUUID('id'), whitelistUserFields; the handler begins with its own
\* test of the id
EnterUpdateUser(q) ==
  IF ~IsUuid(q.id) THEN Respond(q, 400, "Validation failed", NoOut)
  ELSE [q EXCEPT !.ran = TRUE, !.body = WhitelistUserFields(q.body),
                 !.pc = "uu_select"]

StartUpdateUser(r, token, id, body) ==
  /\ Free(r)
  /\ reqs' = [reqs EXCEPT ![r] =
               NewReq("updateUser", "auth", token, id, body)]
  /\ UNCHANGED <<env, now, db, audit_logs, issued>>

\* The update object built without the test of isAdmin around role and status
UserUpdates_NoAdminGate(body, isAdmin) ==
  LET plain == {"username", "bio"}
      cols == {c \in plain : Has(body, c)}
              \cup {c \in {"role"} : Has(body, "role")
                      /\ body["role"] \in {"user", "admin", "moderator"}}
              \cup {c \in {"status"} : Has(body, "status")
                      /\ body["status"] \in {"active", "inactive", "suspended",
                                             "pending_verification"}}
  IN [c \in cols |-> body[c]]

\* The columns updateUser sets, from the body it destructures:
\* { firstName, lastName, username, bio, avatarUrl, role, status } = req.body
UserUpdates(body, isAdmin) ==
  LET plain == {<<"firstName", "first_name">>, <<"lastName", "last_name">>,
                <<"username", "username">>, <<"bio", "bio">>,
                <<"avatarUrl", "avatar_url">>}
      cols == {p[2] : p \in {p \in plain : Has(body, p[1])
                                /\ p[2] \in ALLOWED_USER_UPDATE_FIELDS}}
              \cup {c \in {"role"} : isAdmin /\ Has(body, "role")
                      /\ "role" \in ALLOWED_USER_UPDATE_FIELDS
                      /\ body["role"] \in {"user", "admin", "moderator"}}
              \cup {c \in {"status"} : isAdmin /\ Has(body, "status")
                      /\ "status" \in ALLOWED_USER_UPDATE_FIELDS
                      /\ body["status"] \in {"active", "inactive", "suspended",
                                             "pending_verification"}}
      field(c) == CASE c = "first_name" -> "firstName"
                    [] c = "last_name" -> "lastName"
                    [] c = "avatar_url" -> "avatarUrl"
                    [] OTHER -> c
  IN [c \in cols |-> body[field(c)]]

\* const isAdmin = req.user.role === 'admin';
\* const canUpdateUser = isAdmin || req.user.id === id
IsAdmin(user) == user.role = "admin"
CanUpdateUser(user, id) == IsAdmin(user) \/ user.id = id

\* The permission check and the building of the update object
DecideUpdateUser(q) ==
  LET updates == UserUpdates(q.body, IsAdmin(q.user))
  IN IF ~CanUpdateUser(q.user, q.id)
     THEN Respond(q, 403, "Insufficient permissions", NoOut)
     ELSE IF DOMAIN updates = {}
     THEN Respond(q, 400, "No valid fields to update", NoOut)
     ELSE [q EXCEPT !.pc = "uu_update", !.loc = [existingUser |-> q.loc.existingUser,
                                                 updates |-> updates]]

\* SELECT * FROM users WHERE id = $1
UuSelect(r) ==
  LET q == reqs[r]
      e == [q EXCEPT !.loc = [existingUser |-> users[q.id]]]
  IN /\ q.pc = "uu_select"
     /\ reqs' = [reqs EXCEPT ![r] =
          IF ~UserExists(q.id) THEN Respond(q, 404, "User not found", NoOut)
          ELSE IF Has(q.body, "username") /\ q.body["username"] # users[q.id].username
          THEN [e EXCEPT !.pc = "uu_username"]
          ELSE DecideUpdateUser(e)]
     /\ UNCHANGED <<env, now, db, audit_logs, issued>>

\* SELECT id FROM users WHERE username = $1 AND id != $2
UuUsername(r) ==
  LET q == reqs[r]
      usernameExists == \E u \in UserIds : UserExists(u) /\ u # q.id
                           /\ users[u].username = q.body["username"]
  IN /\ q.pc = "uu_username"
     /\ reqs' = [reqs EXCEPT ![r] =
          IF usernameExists THEN Respond(q, 400, "Username already taken", NoOut)
          ELSE DecideUpdateUser(q)]
     /\ UNCHANGED <<env, now, db, audit_logs, issued>>

\* The row after SET <updates>
ApplyUserUpdates(row, updates) ==
  [c \in DOMAIN row |-> IF c \in DOMAIN updates THEN updates[c] ELSE row[c]]

\* UPDATE users SET ..., updated_at = NOW() WHERE id = $1 RETURNING *;
\* username is UNIQUE.  No row comes back when the user is gone.
UuUpdate(r) ==
  LET q == reqs[r]
      updates == q.loc.updates
      clash == "username" \in DOMAIN updates
                 /\ \E u \in UserIds : UserExists(u) /\ u # q.id
                       /\ users[u].username = updates["username"]
  IN /\ q.pc = "uu_update"
     /\ IF UserExists(q.id) /\ clash
        THEN /\ UNCHANGED users
             /\ reqs' = [reqs EXCEPT ![r] = Respond(q, 500, "Internal server error", NoOut)]
        ELSE /\ users' = IF UserExists(q.id)
                         THEN [users EXCEPT ![q.id] = ApplyUserUpdates(@, updates)]
                         ELSE users
             /\ reqs' = [reqs EXCEPT ![r] =
                  [Wrote(q, "users") EXCEPT !.pc = "uu_audit",
                     !.loc = [existingUser |-> q.loc.existingUser, updates |-> updates,
                              updatedUser |-> users'[q.id]]]]
     /\ UNCHANGED <<env, now, refresh_tokens, messages, message_tags, audit_logs, issued>>

UuAudit(r) ==
  LET q == reqs[r]
  IN /\ q.pc = "uu_audit"
     /\ \E ok \in BOOLEAN :
          CreateAuditLog(r, [q EXCEPT !.pc = "uu_respond"],
                         AuditEntry(q.user.id, "update", "user", q.id), ok)
     /\ UNCHANGED <<env, now, db, issued>>

\* logger.info(`User updated: ${updatedUser.username}`) throws when the
\* UPDATE returned no row
UuRespond(r) ==
  LET q == reqs[r]
  IN /\ q.pc = "uu_respond"
     /\ reqs' = [reqs EXCEPT ![r] =
          IF q.loc.updatedUser.id # q.id
          THEN Respond(q, 500, "Internal server error", NoOut)
          ELSE Respond(q, 200, "User updated successfully", NoOut)]
     /\ UNCHANGED <<env, now, db, audit_logs, issued>>

---------------------------------------------------------------------------
(* controllers/userController.js: deleteUser, getUserStats, getUsers *)

\* DELETE /:id is requireAdmin, validateUUID('id'), deleteUser
EnterDeleteUser(q) ==
  IF RequireAdmin(q.user) # 0
  THEN Respond(q, RequireAdmin(q.user), "Insufficient permissions", NoOut)
  ELSE IF ~IsUuid(q.id) THEN Respond(q, 400, "Validation failed", NoOut)
  ELSE [q EXCEPT !.ran = TRUE, !.pc = "du_select"]

StartDeleteUser(r, token, id) ==
  /\ Free(r)
  /\ reqs' = [reqs EXCEPT ![r] = NewReq("deleteUser", "auth", token, id, NoBody)]
  /\ UNCHANGED <<env, now, db, audit_logs, issued>>

\* if (user.role === 'admin' && req.user.role !== 'super_admin')
DeleteAdminRefused(target, caller) ==
  target.role = "admin" /\ caller.role # "super_admin"

\* deleteUser without the comparison of the caller's id with the id to delete
DuSelect_NoSelfCheck(r) ==
  LET q == reqs[r]
  IN /\ q.pc = "du_select"
     /\ reqs' = [reqs EXCEPT ![r] =
          IF ~UserExists(q.id) THEN Respond(q, 404, "User not found", NoOut)
          ELSE IF DeleteAdminRefused(users[q.id], q.user)
          THEN Respond(q, 403, "Cannot delete admin users", NoOut)
          ELSE [q EXCEPT !.pc = "du_delete", !.loc = [user |-> users[q.id]]]]
     /\ UNCHANGED <<env, now, db, audit_logs, issued>>

\* SELECT * FROM users WHERE id = $1 and the checks that follow it
DuSelect(r) ==
  LET q == reqs[r]
  IN /\ q.pc = "du_select"
     /\ reqs' = [reqs EXCEPT ![r] =
          IF ~UserExists(q.id) THEN Respond(q, 404, "User not found", NoOut)
          ELSE IF q.user.id = q.id
          THEN Respond(q, 400, "Cannot delete your own account", NoOut)
          ELSE IF DeleteAdminRefused(users[q.id], q.user)
          THEN Respond(q, 403, "Cannot delete admin users", NoOut)
          ELSE [q EXCEPT !.pc = "du_delete", !.loc = [user |-> users[q.id]]]]
     /\ UNCHANGED <<env, now, db, audit_logs, issued>>

\* DELETE FROM users WHERE id = $1.  refresh_tokens.user_id is ON DELETE
\* CASCADE, messages.author_id is ON DELETE SET NULL.
DuDelete(r) ==
  LET q == reqs[r]
  IN /\ q.pc = "du_delete"
     /\ users' = IF UserExists(q.id) THEN [users EXCEPT ![q.id] = Deleted] ELSE users
     /\ refresh_tokens' = {row \in refresh_tokens : row.user_id # q.id}
     /\ messages' = [m \in MessageIds |->
                       IF messages[m].id = m /\ messages[m].author_id = q.id
                       THEN [messages[m] EXCEPT !.author_id = None]
                       ELSE messages[m]]
     /\ reqs' = [reqs EXCEPT ![r] = [Wrote(q, "users") EXCEPT !.pc = "du_audit"]]
     /\ UNCHANGED <<env, now, message_tags, audit_logs, issued>>

DuAudit(r) ==
  LET q == reqs[r]
  IN /\ q.pc = "du_audit"
     /\ \E ok \in BOOLEAN :
          CreateAuditLog(r, [q EXCEPT !.pc = "du_respond"],
                         AuditEntry(q.user.id, "delete", "user", q.id), ok)
     /\ UNCHANGED <<env, now, db, issued>>

DuRespond(r) ==
  LET q == reqs[r]
  IN /\ q.pc = "du_respond"
     /\ reqs' = [reqs EXCEPT ![r] = Respond(q, 200, "User deleted successfully", NoOut)]
     /\ UNCHANGED <<env, now, db, audit_logs, issued>>

---------------------------------------------------------------------------
(* Pagination and sorting of the list routes *)

\* A query string value is text; the model writes page and limit as their
\* characters and sort and order as whole words
Digits == {"0", "1", "2", "3", "4", "5", "6", "7", "8", "9"}

DigitValue(c) ==
  CASE c = "0" -> 0 [] c = "1" -> 1 [] c = "2" -> 2 [] c = "3" -> 3 [] c = "4" -> 4
    [] c = "5" -> 5 [] c = "6" -> 6 [] c = "7" -> 7 [] c = "8" -> 8 [] OTHER -> 9

RECURSIVE LeadingDigits(_)
LeadingDigits(cs) ==
  IF cs = <<>> \/ Head(cs) \notin Digits THEN <<>>
  ELSE <<Head(cs)>> \o LeadingDigits(Tail(cs))

RECURSIVE DigitsValue(_)
DigitsValue(ds) ==
  IF ds = <<>> THEN 0
  ELSE 10 * DigitsValue(SubSeq(ds, 1, Len(ds) - 1)) + DigitValue(ds[Len(ds)])

NaN == [nan |-> TRUE, n |-> 0]
Num(n) == [nan |-> FALSE, n |-> n]

Unsigned(cs) == IF cs # <<>> /\ Head(cs) \in {"-", "+"} THEN Tail(cs) ELSE cs

\* parseInt(string): an optional sign, then the digits up to the first other
\* character; NaN when there is no digit
ParseInt(cs) ==
  LET ds == LeadingDigits(Unsigned(cs))
  IN IF ds = <<>> THEN NaN
     ELSE IF Head(cs) = "-" THEN Num(0 - DigitsValue(ds)) ELSE Num(DigitsValue(ds))

\* parseInt(req.query.f), which is NaN for a parameter that was not sent
ParseQuery(query, f) == IF Has(query, f) THEN ParseInt(query[f]) ELSE NaN

\* value || fallback on a number: NaN and 0 are falsy
OrElse(v, fallback) == IF v.nan \/ v.n = 0 THEN fallback ELSE v.n

\* isInt({ min, max }): a sign and digits and nothing else, within the range
IsInt(cs, min, max) ==
  /\ Unsigned(cs) # <<>>
  /\ LeadingDigits(Unsigned(cs)) = Unsigned(cs)
  /\ ParseInt(cs).n >= min
  /\ ParseInt(cs).n <= max

ALLOWED_SORT_FIELDS ==
  {"created_at", "updated_at", "title", "view_count", "like_count", "published_at"}

\* The limit chain without its range
ValidatePagination_AnyLimit(query) ==
  /\ Has(query, "page") => IsInt(query["page"], 1, 1000)
  /\ Has(query, "limit") => IsInt(query["limit"], 0 - 100000, 100000)
  /\ Has(query, "sort") => query["sort"] \in ALLOWED_SORT_FIELDS
  /\ Has(query, "order") => query["order"] \in {"asc", "desc"}
  /\ Has(query, "status") => query["status"] \in {"active", "hidden", "flagged", "deleted"}

\* validatePagination: the chains of page, limit, sort, order and status,
\* each optional(); handleValidationErrors answers 400 when one fails.  The
\* requests of the model send no search, category or author.
ValidatePagination(query) ==
  /\ Has(query, "page") => IsInt(query["page"], 1, 1000)
  /\ Has(query, "limit") => IsInt(query["limit"], 1, 100)
  /\ Has(query, "sort") => query["sort"] \in ALLOWED_SORT_FIELDS
  /\ Has(query, "order") => query["order"] \in {"asc", "desc"}
  /\ Has(query, "status") => query["status"] \in {"active", "hidden", "flagged", "deleted"}

\* const allowedSortFields = [...] of getUsers and of getMessages
UserSortFields == {"created_at", "updated_at", "email", "username", "last_login"}
MessageSortFields ==
  {"created_at", "updated_at", "title", "view_count", "like_count", "published_at"}

\* const page = parseInt(req.query.page) || 1
PageOf(query) == OrElse(ParseQuery(query, "page"), 1)

\* const limit = Math.min(parseInt(req.query.limit) || 10, 100)
LimitOf(query) ==
  LET asked == OrElse(ParseQuery(query, "limit"), 10)
  IN IF asked < 100 THEN asked ELSE 100

\* The sort parameter as it was sent
SortOf_Raw(allowedSortFields, query) ==
  IF Has(query, "sort") THEN query["sort"] ELSE "created_at"

\* allowedSortFields.includes(req.query.sort) ? req.query.sort : 'created_at'
SortOf(allowedSortFields, query) ==
  IF Has(query, "sort") /\ query["sort"] \in allowedSortFields THEN query["sort"]
  ELSE "created_at"

\* req.query.order === 'asc' ? 'asc' : 'desc'
OrderOf(query) == IF Has(query, "order") /\ query["order"] = "asc" THEN "asc" ELSE "desc"

\* The locals of a list handler, which its SELECT puts after ORDER BY, LIMIT
\* and OFFSET
ListLocals(allowedSortFields, query) ==
  [page |-> PageOf(query), limit |-> LimitOf(query),
   offset |-> (PageOf(query) - 1) * LimitOf(query),
   sort |-> SortOf(allowedSortFields, query), order |-> OrderOf(query)]

\* GET /stats is requireAdmin, getUserStats
EnterUserStats(q) ==
  IF RequireAdmin(q.user) # 0
  THEN Respond(q, RequireAdmin(q.user), "Insufficient permissions", NoOut)
  ELSE [q EXCEPT !.ran = TRUE, !.pc = "stats_select"]

\* GET / is requireModerator, validatePagination, getUsers
EnterListUsers(q) ==
  IF RequireModerator(q.user) # 0
  THEN Respond(q, RequireModerator(q.user), "Insufficient permissions", NoOut)
  ELSE IF ~ValidatePagination(q.body)
  THEN Respond(q, 400, "Validation failed", NoOut)
  ELSE [q EXCEPT !.ran = TRUE, !.loc = ListLocals(UserSortFields, q.body),
                 !.pc = "list_select"]

StartUserRead(r, token, op) ==
  /\ Free(r)
  /\ reqs' = [reqs EXCEPT ![r] = NewReq(op, "auth", token, None, NoBody)]
  /\ UNCHANGED <<env, now, db, audit_logs, issued>>

\* The SELECTs of getUserStats and getUsers, which write nothing
UserReadSelect(r) ==
  LET q == reqs[r]
  IN /\ q.pc \in {"stats_select", "list_select"}
     /\ reqs' = [reqs EXCEPT ![r] = Respond(q, 200, "", NoOut)]
     /\ UNCHANGED <<env, now, db, audit_logs, issued>>

---------------------------------------------------------------------------
(* controllers/messageController.js: generateSlug *)

\* The titles of the model, and their characters
Titles == {"Hello World", "Hello, World!", "Hello World 1", "Hey"}

Chars(title) ==
  CASE title = "Hello World" ->
         <<"H", "e", "l", "l", "o", " ", "W", "o", "r", "l", "d">>
    [] title = "Hello, World!" ->
         <<"H", "e", "l", "l", "o", ",", " ", "W", "o", "r", "l", "d", "!">>
    [] title = "Hello World 1" ->
         <<"H", "e", "l", "l", "o", " ", "W", "o", "r", "l", "d", " ", "1">>
    [] title = "Hey" -> <<"H", "e", "y">>
    [] OTHER -> <<>>

ToLowerCase(c) ==
  CASE c = "H" -> "h"
    [] c = "W" -> "w"
    [] OTHER -> c

SlugChars == {"h", "e", "l", "o", "w", "r", "d", "y", " ", "-",
              "0", "1", "2", "3", "4", "5", "6", "7", "8", "9"}

RECURSIVE MapLower(_)
MapLower(cs) ==
  IF cs = <<>> THEN <<>> ELSE <<ToLowerCase(Head(cs))>> \o MapLower(Tail(cs))

\* .replace(/[^a-z0-9 -]/g, '')
StripChars(cs) == SelectSeq(cs, LAMBDA c : c \in SlugChars)

\* .replace(/\s+/g, '-'): every run of white space becomes one hyphen
RECURSIVE SpacesToHyphen(_)
SpacesToHyphen(cs) ==
  IF cs = <<>> THEN <<>>
  ELSE IF Head(cs) = " "
  THEN IF Len(cs) > 1 /\ cs[2] = " "
       THEN SpacesToHyphen(Tail(cs))
       ELSE <<"-">> \o SpacesToHyphen(Tail(cs))
  ELSE <<Head(cs)>> \o SpacesToHyphen(Tail(cs))

\* .replace(/-+/g, '-'): every run of hyphens becomes one hyphen
RECURSIVE CollapseHyphens(_)
CollapseHyphens(cs) ==
  IF cs = <<>> THEN <<>>
  ELSE IF Head(cs) = "-" /\ Len(cs) > 1 /\ cs[2] = "-"
  THEN CollapseHyphens(Tail(cs))
  ELSE <<Head(cs)>> \o CollapseHyphens(Tail(cs))

\* generateSlug(title); .trim('-') trims white space only, and none is left
GenerateSlug(title) ==
  CollapseHyphens(SpacesToHyphen(StripChars(MapLower(Chars(title)))))

\* `${counter}`
RECURSIVE Decimal(_)
Decimal(n) ==
  LET digit(d) == CASE d = 0 -> "0" [] d = 1 -> "1" [] d = 2 -> "2" [] d = 3 -> "3"
                    [] d = 4 -> "4" [] d = 5 -> "5" [] d = 6 -> "6" [] d = 7 -> "7"
                    [] d = 8 -> "8" [] OTHER -> "9"
  IN IF n < 10 THEN <<digit(n)>> ELSE Decimal(n \div 10) \o <<digit(n % 10)>>

\* The suffix without its hyphen
Suffixed_NoHyphen(slug, counter) == slug \o Decimal(counter)

\* `${slug}-${counter}`
Suffixed(slug, counter) == slug \o <<"-">> \o Decimal(counter)

---------------------------------------------------------------------------
(* controllers/messageController.js: rows and bodies *)

MessageParams == MessageIds \cup {BadUuid}
ExistingTags == TagIds
MessageStatuses == {"active", "hidden", "flagged", "deleted"}

MessageExists(id) == id \in MessageIds /\ messages[id].id = id
FreeMessageIds == {id \in MessageIds : messages[id] = NoMessage}

LongContent == "Lorem ipsum dolor"

\* The bodies of the model's POST and PUT /api/messages requests
MessageBodies ==
  LET base(title) == [f \in {"title", "content"} |->
                        IF f = "title" THEN title ELSE LongContent]
      with(b, f, v) == [g \in DOMAIN b \cup {f} |-> IF g = f THEN v ELSE b[g]]
      hello == base("Hello World")
  IN { hello,
       base("Hello, World!"),
       base("Hey"),
       with(hello, "content", "Changed content"),
       with(hello, "status", "hidden"),
       with(hello, "tags", <<"t1">>),
       with(hello, "tags", <<"t9">>),
       with(hello, "isFeatured", "true"),
       with(hello, "is_pinned", "true"),
       with(with(with(with(with(hello, "author_id", "u2"), "view_count", "999"),
                      "like_count", "999"), "id", "m2"), "slug", "evil") }

\* validateMessage: title of 5 to 255 characters from the allowed set,
\* content of at least 10 characters, status one of the four values
MessageValid(body) ==
  /\ Has(body, "title") /\ Len(Chars(body["title"])) >= 5
  /\ Has(body, "content")
  /\ Has(body, "status") => body["status"] \in MessageStatuses

\* canEdit that only asks for an authenticated caller
CanEdit_Anyone(user, message) == user # NoUser

\* const canEdit = req.user.role === 'admin' || req.user.role === 'moderator'
\*              || req.user.id === existingMessage.author_id
CanEdit(user, message) ==
  user.role = "admin" \/ user.role = "moderator" \/ user.id = message.author_id

CanDelete(user, message) ==
  user.role = "admin" \/ user.role = "moderator" \/ user.id = message.author_id

IsElevated(user) == user.role = "admin" \/ user.role = "moderator"

---------------------------------------------------------------------------
(* controllers/messageController.js: createMessage *)

SlugTaken(slug, exceptId) ==
  \E m \in MessageIds : MessageExists(m) /\ m # exceptId /\ messages[m].slug = slug

\* whitelistMessageFields, validateMessage, and the head of createMessage:
\* let slug = generateSlug(title); let counter = 1; let finalSlug = slug
EnterCreateMessage(q) ==
  LET body == WhitelistMessageFields(q.body)
  IN IF ~MessageValid(body) THEN Respond(q, 400, "Validation failed", NoOut)
     ELSE [q EXCEPT !.ran = TRUE, !.body = body, !.pc = "cm_slug",
                    !.loc = [slug |-> GenerateSlug(body["title"]),
                             finalSlug |-> GenerateSlug(body["title"]),
                             counter |-> 1]]

StartCreateMessage(r, token, body) ==
  /\ Free(r)
  /\ FreeMessageIds # {}
  /\ reqs' = [reqs EXCEPT ![r] =
               NewReq("createMessage", "auth", token, None, body)]
  /\ UNCHANGED <<env, now, db, audit_logs, issued>>

\* A turn of the loop that counts and tries the same candidate again
CmSlug_SameCandidate(r) ==
  LET q == reqs[r]
  IN /\ q.pc = "cm_slug"
     /\ reqs' = [reqs EXCEPT ![r] =
          IF ~SlugTaken(q.loc.finalSlug, None)
          THEN [q EXCEPT !.pc = "cm_insert"]
          ELSE [q EXCEPT !.loc.counter = IF @ < 9 THEN @ + 1 ELSE @]]
     /\ UNCHANGED <<env, now, db, audit_logs, issued>>

\* One turn of while (slugExists): SELECT id FROM messages WHERE slug = $1
CmSlug(r) ==
  LET q == reqs[r]
  IN /\ q.pc = "cm_slug"
     /\ reqs' = [reqs EXCEPT ![r] =
          IF ~SlugTaken(q.loc.finalSlug, None)
          THEN [q EXCEPT !.pc = "cm_insert"]
          ELSE [q EXCEPT !.loc.finalSlug = Suffixed(q.loc.slug, q.loc.counter),
                         !.loc.counter = @ + 1]]
     /\ UNCHANGED <<env, now, db, audit_logs, issued>>

\* let messageStatus = status || 'active';
\* if (req.user.role === 'user') messageStatus = 'active'
CreateStatus(body, user) ==
  IF user.role = "user" THEN "active"
  ELSE IF Has(body, "status") THEN body["status"] ELSE "active"

\* The row INSERT INTO messages (...) VALUES (...) RETURNING * makes
NewMessageRow(id, body, user, finalSlug) ==
  LET messageStatus == CreateStatus(body, user)
  IN [id |-> id, title |-> body["title"], slug |-> finalSlug,
      content |-> body["content"],
      excerpt |-> IF Has(body, "excerpt") THEN body["excerpt"] ELSE None,
      category_id |-> IF Has(body, "categoryId") THEN body["categoryId"] ELSE None,
      author_id |-> user.id, status |-> messageStatus,
      is_featured |-> IF Has(body, "isFeatured") THEN body["isFeatured"] ELSE "false",
      is_pinned |-> IF Has(body, "isPinned") THEN body["isPinned"] ELSE "false",
      view_count |-> 0, like_count |-> 0,
      published_at |-> IF messageStatus = "active" THEN now ELSE -1]

\* if (tags && Array.isArray(tags) && tags.length > 0)
TagsToAdd(body) == IF Has(body, "tags") THEN body["tags"] ELSE <<>>

\* The INSERT into a table whose slug column is not UNIQUE
CmInsert_NoUnique(r) ==
  LET q == reqs[r]
      id == CHOOSE m \in FreeMessageIds : TRUE
      row == NewMessageRow(id, q.body, q.user, q.loc.finalSlug)
  IN /\ q.pc = "cm_insert"
     /\ FreeMessageIds # {}
     /\ messages' = [messages EXCEPT ![id] = row]
     /\ reqs' = [reqs EXCEPT ![r] =
          [Wrote(q, "messages") EXCEPT
             !.pc = IF TagsToAdd(q.body) # <<>> THEN "cm_tag" ELSE "cm_audit",
             !.loc = [message |-> row, tags |-> TagsToAdd(q.body)]]]
     /\ UNCHANGED <<env, now, users, refresh_tokens, message_tags, audit_logs, issued>>

\* The INSERT fails on slug UNIQUE and on the foreign key author_id.
CmInsert(r) ==
  LET q == reqs[r]
      id == CHOOSE m \in FreeMessageIds : TRUE
      row == NewMessageRow(id, q.body, q.user, q.loc.finalSlug)
  IN /\ q.pc = "cm_insert"
     /\ FreeMessageIds # {}
     /\ IF SlugTaken(q.loc.finalSlug, None) \/ ~UserExists(q.user.id)
        THEN /\ UNCHANGED messages
             /\ reqs' = [reqs EXCEPT ![r] = Respond(q, 500, "Internal server error", NoOut)]
        ELSE /\ messages' = [messages EXCEPT ![id] = row]
             /\ reqs' = [reqs EXCEPT ![r] =
                  [Wrote(q, "messages") EXCEPT
                     !.pc = IF TagsToAdd(q.body) # <<>> THEN "cm_tag" ELSE "cm_audit",
                     !.loc = [message |-> row, tags |-> TagsToAdd(q.body)]]]
     /\ UNCHANGED <<env, now, users, refresh_tokens, message_tags, audit_logs, issued>>

\* INSERT INTO message_tags (message_id, tag_id) VALUES ($1, $2)
\* ON CONFLICT (message_id, tag_id) DO NOTHING; both columns are foreign keys
CanInsertTag(messageId, tagId) == MessageExists(messageId) /\ tagId \in ExistingTags

CmTag(r) ==
  LET q == reqs[r]
      tagId == Head(q.loc.tags)
      rest == Tail(q.loc.tags)
  IN /\ q.pc = "cm_tag"
     /\ IF ~CanInsertTag(q.loc.message.id, tagId)
        THEN /\ UNCHANGED message_tags
             /\ reqs' = [reqs EXCEPT ![r] = Respond(q, 500, "Internal server error", NoOut)]
        ELSE /\ message_tags' = message_tags \cup {<<q.loc.message.id, tagId>>}
             /\ reqs' = [reqs EXCEPT ![r] =
                  [Wrote(q, "message_tags") EXCEPT
                     !.pc = IF rest # <<>> THEN "cm_tag" ELSE "cm_audit",
                     !.loc.tags = rest]]
     /\ UNCHANGED <<env, now, users, refresh_tokens, messages, audit_logs, issued>>

CmAudit(r) ==
  LET q == reqs[r]
  IN /\ q.pc = "cm_audit"
     /\ \E ok \in BOOLEAN :
          CreateAuditLog(r, [q EXCEPT !.pc = "cm_respond"],
                         AuditEntry(q.user.id, "create", "message", q.loc.message.id), ok)
     /\ UNCHANGED <<env, now, db, issued>>

CmRespond(r) ==
  LET q == reqs[r]
  IN /\ q.pc = "cm_respond"
     /\ reqs' = [reqs EXCEPT ![r] = Respond(q, 201, "Message created successfully", NoOut)]
     /\ UNCHANGED <<env, now, db, audit_logs, issued>>

---------------------------------------------------------------------------
(* controllers/messageController.js: updateMessage *)

\* validateUUID('id'), whitelistMessageFields, validateMessage
EnterUpdateMessage(q) ==
  LET body == WhitelistMessageFields(q.body)
  IN IF ~IsUuid(q.id) THEN Respond(q, 400, "Validation failed", NoOut)
     ELSE IF ~MessageValid(body) THEN Respond(q, 400, "Validation failed", NoOut)
     ELSE [q EXCEPT !.ran = TRUE, !.body = body, !.pc = "um_select"]

StartUpdateMessage(r, token, id, body) ==
  /\ Free(r)
  /\ reqs' = [reqs EXCEPT ![r] =
               NewReq("updateMessage", "auth", token, id, body)]
  /\ UNCHANGED <<env, now, db, audit_logs, issued>>

\* The entries of the update object other than title and slug, from
\* { title, content, excerpt, categoryId, tags, isFeatured, isPinned, status }
RestOfMessageUpdates(body, user, existingMessage, t) ==
  LET plain == {<<"content", "content">>, <<"excerpt", "excerpt">>,
                <<"categoryId", "category_id">>}
      elevated == {<<"isFeatured", "is_featured">>, <<"isPinned", "is_pinned">>,
                   <<"status", "status">>}
      pairs == {p \in plain : Has(body, p[1]) /\ p[2] \in ALLOWED_MESSAGE_UPDATE_FIELDS}
               \cup {p \in elevated : IsElevated(user) /\ Has(body, p[1])
                                        /\ p[2] \in ALLOWED_MESSAGE_UPDATE_FIELDS}
      publish == IsElevated(user) /\ Has(body, "status")
                   /\ "status" \in ALLOWED_MESSAGE_UPDATE_FIELDS
                   /\ body["status"] = "active" /\ existingMessage.status # "active"
      cols == {p[2] : p \in pairs} \cup {c \in {"published_at"} : publish}
      field(c) == CHOOSE f \in {p[1] : p \in pairs} : <<f, c>> \in pairs
  IN [c \in cols |-> IF c = "published_at" THEN t ELSE body[field(c)]]

Merge(f, g) == [c \in DOMAIN f \cup DOMAIN g |-> IF c \in DOMAIN g THEN g[c] ELSE f[c]]

\* The code after the slug loop up to the UPDATE: the update object is
\* completed and an empty one is refused unless tags were sent
BuildMessageUpdates(q, first) ==
  LET updates == Merge(first, RestOfMessageUpdates(q.body, q.user,
                                                   q.loc.existingMessage, now))
      l == [existingMessage |-> q.loc.existingMessage, updates |-> updates,
            updatedMessage |-> q.loc.existingMessage, tags |-> TagsToAdd(q.body)]
  IN IF DOMAIN updates = {} /\ ~Has(q.body, "tags")
     THEN Respond(q, 400, "No valid fields to update", NoOut)
     ELSE [q EXCEPT !.loc = l,
                    !.pc = IF DOMAIN updates # {} THEN "um_update"
                           ELSE IF Has(q.body, "tags") THEN "um_untag"
                           ELSE "um_audit"]

\* SELECT * FROM messages WHERE id = $1, the permission check, and the
\* title entry of the update object
UmSelect(r) ==
  LET q == reqs[r]
      existingMessage == messages[q.id]
      e == [q EXCEPT !.loc = [existingMessage |-> existingMessage]]
      title == [c \in {"title"} |-> q.body["title"]]
  IN /\ q.pc = "um_select"
     /\ reqs' = [reqs EXCEPT ![r] =
          IF ~MessageExists(q.id) THEN Respond(q, 404, "Message not found", NoOut)
          ELSE IF ~CanEdit(q.user, existingMessage)
          THEN Respond(q, 403, "Insufficient permissions", NoOut)
          ELSE IF ~(Has(q.body, "title") /\ "title" \in ALLOWED_MESSAGE_UPDATE_FIELDS)
          THEN BuildMessageUpdates(e, EmptyBody)
          ELSE IF q.body["title"] = existingMessage.title
          THEN BuildMessageUpdates(e, title)
          ELSE [e EXCEPT !.pc = "um_slug",
                         !.loc = [existingMessage |-> existingMessage,
                                  slug |-> GenerateSlug(q.body["title"]),
                                  finalSlug |-> GenerateSlug(q.body["title"]),
                                  counter |-> 1]]]
     /\ UNCHANGED <<env, now, db, audit_logs, issued>>

\* The turn of the loop with SELECT id FROM messages WHERE slug = $1
UmSlug_NoExclusion(r) ==
  LET q == reqs[r]
      first == [c \in {"title", "slug"} |->
                  IF c = "title" THEN q.body["title"] ELSE q.loc.finalSlug]
  IN /\ q.pc = "um_slug"
     /\ reqs' = [reqs EXCEPT ![r] =
          IF ~SlugTaken(q.loc.finalSlug, None)
          THEN BuildMessageUpdates(q, first)
          ELSE [q EXCEPT !.loc.finalSlug = Suffixed(q.loc.slug, q.loc.counter),
                         !.loc.counter = @ + 1]]
     /\ UNCHANGED <<env, now, db, audit_logs, issued>>

\* One turn of while (slugExists):
\* SELECT id FROM messages WHERE slug = $1 AND id != $2
UmSlug(r) ==
  LET q == reqs[r]
      first == [c \in {"title", "slug"} |->
                  IF c = "title" THEN q.body["title"] ELSE q.loc.finalSlug]
  IN /\ q.pc = "um_slug"
     /\ reqs' = [reqs EXCEPT ![r] =
          IF ~SlugTaken(q.loc.finalSlug, q.id)
          THEN BuildMessageUpdates(q, first)
          ELSE [q EXCEPT !.loc.finalSlug = Suffixed(q.loc.slug, q.loc.counter),
                         !.loc.counter = @ + 1]]
     /\ UNCHANGED <<env, now, db, audit_logs, issued>>

ApplyMessageUpdates(row, updates) ==
  [c \in DOMAIN row |-> IF c \in DOMAIN updates THEN updates[c] ELSE row[c]]

AfterMessageUpdate(q) ==
  IF Has(q.body, "tags") THEN "um_untag" ELSE "um_audit"

\* UPDATE messages SET ..., updated_at = NOW() WHERE id = $1 RETURNING *;
\* slug is UNIQUE.  No row comes back when the message is gone.
UmUpdate(r) ==
  LET q == reqs[r]
      updates == q.loc.updates
      clash == "slug" \in DOMAIN updates /\ SlugTaken(updates["slug"], q.id)
  IN /\ q.pc = "um_update"
     /\ IF MessageExists(q.id) /\ clash
        THEN /\ UNCHANGED messages
             /\ reqs' = [reqs EXCEPT ![r] = Respond(q, 500, "Internal server error", NoOut)]
        ELSE /\ messages' = IF MessageExists(q.id)
                            THEN [messages EXCEPT ![q.id] = ApplyMessageUpdates(@, updates)]
                            ELSE messages
             /\ reqs' = [reqs EXCEPT ![r] =
                  [Wrote(q, "messages") EXCEPT !.pc = AfterMessageUpdate(q),
                     !.loc.updatedMessage = messages'[q.id]]]
     /\ UNCHANGED <<env, now, users, refresh_tokens, message_tags, audit_logs, issued>>

\* DELETE FROM message_tags WHERE message_id = $1
UmUntag(r) ==
  LET q == reqs[r]
  IN /\ q.pc = "um_untag"
     /\ message_tags' = {p \in message_tags : p[1] # q.id}
     /\ reqs' = [reqs EXCEPT ![r] =
          [Wrote(q, "message_tags") EXCEPT
             !.pc = IF q.loc.tags # <<>> THEN "um_tag" ELSE "um_audit"]]
     /\ UNCHANGED <<env, now, users, refresh_tokens, messages, audit_logs, issued>>

\* INSERT INTO message_tags (message_id, tag_id) VALUES ($1, $2) ON CONFLICT DO NOTHING
UmTag(r) ==
  LET q == reqs[r]
      tagId == Head(q.loc.tags)
      rest == Tail(q.loc.tags)
  IN /\ q.pc = "um_tag"
     /\ IF ~CanInsertTag(q.id, tagId)
        THEN /\ UNCHANGED message_tags
             /\ reqs' = [reqs EXCEPT ![r] = Respond(q, 500, "Internal server error", NoOut)]
        ELSE /\ message_tags' = message_tags \cup {<<q.id, tagId>>}
             /\ reqs' = [reqs EXCEPT ![r] =
                  [Wrote(q, "message_tags") EXCEPT
                     !.pc = IF rest # <<>> THEN "um_tag" ELSE "um_audit",
                     !.loc.tags = rest]]
     /\ UNCHANGED <<env, now, users, refresh_tokens, messages, audit_logs, issued>>

UmAudit(r) ==
  LET q == reqs[r]
  IN /\ q.pc = "um_audit"
     /\ \E ok \in BOOLEAN :
          CreateAuditLog(r, [q EXCEPT !.pc = "um_respond"],
                         AuditEntry(q.user.id, "update", "message", q.id), ok)
     /\ UNCHANGED <<env, now, db, issued>>

\* logger.info(`Message updated: ${updatedMessage.slug}`) throws when the
\* UPDATE returned no row
UmRespond(r) ==
  LET q == reqs[r]
  IN /\ q.pc = "um_respond"
     /\ reqs' = [reqs EXCEPT ![r] =
          IF q.loc.updatedMessage.id # q.id
          THEN Respond(q, 500, "Internal server error", NoOut)
          ELSE Respond(q, 200, "Message updated successfully", NoOut)]
     /\ UNCHANGED <<env, now, db, audit_logs, issued>>

---------------------------------------------------------------------------
(* controllers/messageController.js: deleteMessage *)

DeletedMessage == [id |-> "deleted"]

\* validateUUID('id')
EnterDeleteMessage(q) ==
  IF ~IsUuid(q.id) THEN Respond(q, 400, "Validation failed", NoOut)
  ELSE [q EXCEPT !.ran = TRUE, !.pc = "dm_select"]

StartDeleteMessage(r, token, id) ==
  /\ Free(r)
  /\ reqs' = [reqs EXCEPT ![r] = NewReq("deleteMessage", "auth", token, id, NoBody)]
  /\ UNCHANGED <<env, now, db, audit_logs, issued>>

\* SELECT * FROM messages WHERE id = $1 and the permission check
DmSelect(r) ==
  LET q == reqs[r]
  IN /\ q.pc = "dm_select"
     /\ reqs' = [reqs EXCEPT ![r] =
          IF ~MessageExists(q.id) THEN Respond(q, 404, "Message not found", NoOut)
          ELSE IF ~CanDelete(q.user, messages[q.id])
          THEN Respond(q, 403, "Insufficient permissions", NoOut)
          ELSE [q EXCEPT !.pc = "dm_delete", !.loc = [message |-> messages[q.id]]]]
     /\ UNCHANGED <<env, now, db, audit_logs, issued>>

\* DELETE FROM messages WHERE id = $1; message_tags rows go with it
\* (ON DELETE CASCADE)
DmDelete(r) ==
  LET q == reqs[r]
  IN /\ q.pc = "dm_delete"
     /\ messages' = IF MessageExists(q.id)
                    THEN [messages EXCEPT ![q.id] = DeletedMessage] ELSE messages
     /\ message_tags' = {p \in message_tags : p[1] # q.id}
     /\ reqs' = [reqs EXCEPT ![r] = [Wrote(q, "messages") EXCEPT !.pc = "dm_audit"]]
     /\ UNCHANGED <<env, now, users, refresh_tokens, audit_logs, issued>>

DmAudit(r) ==
  LET q == reqs[r]
  IN /\ q.pc = "dm_audit"
     /\ \E ok \in BOOLEAN :
          CreateAuditLog(r, [q EXCEPT !.pc = "dm_respond"],
                         AuditEntry(q.user.id, "delete", "message", q.id), ok)
     /\ UNCHANGED <<env, now, db, issued>>

DmRespond(r) ==
  LET q == reqs[r]
  IN /\ q.pc = "dm_respond"
     /\ reqs' = [reqs EXCEPT ![r] = Respond(q, 200, "Message deleted successfully", NoOut)]
     /\ UNCHANGED <<env, now, db, audit_logs, issued>>

---------------------------------------------------------------------------
(* middleware/auth.js: authenticateToken in front of the protected routes *)

\* The middleware and the head of the handler that a route runs after
\* authenticateToken has called next()
Enter(q) ==
  CASE q.op = "logout" -> EnterLogout(q)
    [] q.op = "profile" -> EnterProfile(q)
    [] q.op = "updatePassword" -> EnterUpdatePassword(q)
    [] q.op = "updateUser" -> EnterUpdateUser(q)
    [] q.op = "deleteUser" -> EnterDeleteUser(q)
    [] q.op = "userStats" -> EnterUserStats(q)
    [] q.op = "listUsers" -> EnterListUsers(q)
    [] q.op = "createMessage" -> EnterCreateMessage(q)
    [] q.op = "updateMessage" -> EnterUpdateMessage(q)
    [] q.op = "deleteMessage" -> EnterDeleteMessage(q)

\* authenticateToken: jwt.verify, then SELECT id, email, username, role,
\* status FROM users WHERE id = $1 AND status = 'active'; req.user = user; next()
Authenticate(r) ==
  LET q == reqs[r]
      res == AuthenticateResult(q.token)
  IN /\ q.pc = "auth"
     /\ reqs' = [reqs EXCEPT ![r] =
          IF res[1] # 0 THEN Respond(q, res[1], res[2], NoOut)
          ELSE Enter([q EXCEPT !.user = SelectActiveUser(q.token.userId),
                               !.passed = TRUE])]
     /\ UNCHANGED <<env, now, db, audit_logs, issued>>

---------------------------------------------------------------------------
(* Time *)

Tick ==
  /\ now < MaxTime
  /\ now' = now + 1
  /\ UNCHANGED <<env, db, audit_logs, issued, reqs>>

---------------------------------------------------------------------------
(* Initial states *)

\* process.env: JWT_EXPIRES_IN and JWT_REFRESH_EXPIRES_IN as deployed
Envs ==
  {[JWT_EXPIRES_IN |-> AccessTTL, JWT_REFRESH_EXPIRES_IN |-> ttl] :
     ttl \in {RefreshTTL, LongRefreshTTL}}

\* The seeded accounts: a member and an administrator
SeedUsers ==
  [id \in UserIds |->
     CASE id = "u1" -> UserRow("u1", "ann@x.io", "ann", BcryptHash(PwOld), "user", "active")
       [] id = "u2" -> UserRow("u2", "root@x.io", "root", BcryptHash(PwOld), "admin", "active")
       [] OTHER -> NoUser]

NoMessages == [m \in MessageIds |-> NoMessage]

\* The server after start-up on the seeded database
Init ==
  /\ env \in Envs
  /\ now = 0
  /\ users = SeedUsers
  /\ refresh_tokens = {}
  /\ messages = NoMessages
  /\ message_tags = {}
  /\ audit_logs = 0
  /\ issued = {}
  /\ reqs = [r \in Slots |-> Idle]

LoginSteps(r) ==
  LoginSelect(r) \/ LoginUpdate(r) \/ LoginStore(r) \/ LoginAudit(r) \/ LoginRespond(r)

RefreshSteps(r) == RefreshSelectToken(r) \/ RefreshSelectUser(r)

LogoutSteps(r) == LogoutRevoke(r) \/ LogoutAudit(r) \/ LogoutRespond(r)

PasswordSteps(r) ==
  PwSelect(r) \/ PwUpdate(r) \/ PwRevoke(r) \/ PwAudit(r) \/ PwRespond(r)

\* PUT /api/users/:id with a body that sets the status only
SuspendBodies == {body \in UserBodies : DOMAIN body = {"status"} /\ body["status"] = "suspended"}

\* The requests of the authentication model: logins of the seeded
\* accounts, refreshes and logouts, the reading of the profile, the member
\* changing their password, and status changes of the member's account
AuthRequest(r) ==
  \/ \E email \in EmailInputs \ {"new@x.io"}, password \in {PwOld, PwNew} :
       Cardinality(refresh_tokens) < MaxRefreshRows /\ StartLogin(r, email, password)
  \/ \E token \in RefreshInputs :
       Cardinality(issued) < MaxIssued /\ StartRefresh(r, token)
  \/ \E token \in Bearers, refreshToken \in RefreshInputs \ {ForgedToken} :
       StartLogout(r, token, refreshToken)
  \/ \E token \in Bearers : StartProfile(r, token)
  \/ \E token \in Bearers, currentPassword \in {PwOld, NoPassword} :
       StartUpdatePassword(r, token, "u1", currentPassword, PwNew)
  \/ \E token \in Bearers, body \in SuspendBodies :
       StartUpdateUser(r, token, "u1", body)

Next ==
  \/ Tick
  \/ \E r \in Slots :
       \/ AuthRequest(r)
       \/ Authenticate(r)
       \/ LoginSteps(r)
       \/ RefreshSteps(r)
       \/ LogoutSteps(r)
       \/ PasswordSteps(r)
       \/ ProfileSelect(r)
       \/ UuSelect(r) \/ UuUpdate(r) \/ UuAudit(r) \/ UuRespond(r)

Spec == Init /\ [][Next]_vars

---------------------------------------------------------------------------
(* Properties of the authentication routes *)

\* The step of slot r in which its request is answered
Answered(r) == reqs[r].pc # "done" /\ reqs'[r].pc = "done"

\* The refresh_tokens row of a token is revoked
Revoked(token) == \E row \in refresh_tokens : row.token = token /\ row.is_revoked

\* The token's signature is the server's and its exp lies ahead
SignatureValid(token, secret) ==
  token # NoToken /\ token.secret = secret /\ now < token.exp

\* The token has a row that is neither revoked nor past expires_at
RecordValid(token) ==
  \E row \in refresh_tokens : row.token = token /\ ~row.is_revoked /\ now <= row.expires_at

\* The account exists and its status is active
ActiveAccount(id) == id \in UserIds /\ users[id].id = id /\ users[id].status = "active"

\* C1: once the row of a refresh token is revoked it stays revoked in every
\* later state, and a refresh request whose token is looked up while revoked
\* is answered 401 in that step, with no token in the response and no token
\* minted, whatever the signature and the expires_at of the row say.
C1_RevokedNeverRefreshes ==
  [][ /\ \A row \in refresh_tokens :
           row.is_revoked =>
             \A after \in refresh_tokens' : after.token = row.token => after.is_revoked
      /\ \A r \in DOMAIN reqs :
           ( /\ reqs[r].pc = "refresh_token"
             /\ reqs'[r] # reqs[r]
             /\ Revoked(reqs[r].raw.refreshToken) )
           => /\ reqs'[r].pc = "done"
              /\ reqs'[r].status = 401
              /\ reqs'[r].out = NoOut
              /\ issued' = issued ]_vars

\* A refresh with a revoked token was refused although the token's signature
\* and the row's expires_at were still good and the owner active; the owner
\* has changed the password since.
C1_Witness ==
  \E r \in DOMAIN reqs :
    LET token == reqs[r].raw.refreshToken
    IN /\ reqs[r].op = "refresh" /\ reqs[r].pc = "done" /\ reqs[r].status = 401
       /\ SignatureValid(token, "JWT_REFRESH_SECRET")
       /\ \E row \in refresh_tokens :
            row.token = token /\ row.is_revoked /\ now <= row.expires_at
       /\ ActiveAccount(token.userId)
       /\ users[token.userId].password_hash = BcryptHash(PwNew)

\* C2: a refresh request goes on from the lookup of its token only when the
\* signature verifies and is not expired and the row exists, is not revoked
\* and is not past expires_at; it is answered 200 with a new access token
\* for the token's user only when that user is then active; every other
\* refresh is answered 401 with no token, and nothing is minted.
C2_RefreshOnlyWhenAllHold ==
  [][ \A r \in DOMAIN reqs :
        LET token == reqs[r].raw.refreshToken
            minted == reqs'[r].out.accessToken
        IN /\ (reqs[r].pc = "refresh_token" /\ reqs'[r] # reqs[r]) =>
                IF SignatureValid(token, "JWT_REFRESH_SECRET") /\ RecordValid(token)
                THEN reqs'[r].pc = "refresh_user" /\ issued' = issued
                ELSE /\ reqs'[r].pc = "done" /\ reqs'[r].status = 401
                     /\ reqs'[r].out = NoOut /\ issued' = issued
           /\ (reqs[r].pc = "refresh_user" /\ reqs'[r] # reqs[r]) =>
                IF ActiveAccount(token.userId)
                THEN /\ reqs'[r].pc = "done" /\ reqs'[r].status = 200
                     /\ minted = [secret |-> "JWT_SECRET", userId |-> token.userId,
                                  iat |-> now, exp |-> now + env.JWT_EXPIRES_IN]
                     /\ reqs'[r].out.refreshToken = NoToken
                     /\ issued' = issued \cup {minted}
                ELSE /\ reqs'[r].pc = "done" /\ reqs'[r].status = 401
                     /\ reqs'[r].out = NoOut /\ issued' = issued
           /\ (reqs[r].op = "refresh" /\ reqs'[r] # reqs[r]) => db' = db ]_vars

\* A refresh was refused because the row's expires_at has passed while the
\* signature of the token was still good and its owner active.
C2_Witness ==
  \E r \in DOMAIN reqs :
    LET token == reqs[r].raw.refreshToken
    IN /\ reqs[r].op = "refresh" /\ reqs[r].pc = "done" /\ reqs[r].status = 401
       /\ SignatureValid(token, "JWT_REFRESH_SECRET")
       /\ \E row \in refresh_tokens :
            row.token = token /\ ~row.is_revoked /\ now > row.expires_at
       /\ ActiveAccount(token.userId)

\* The routes that stand behind authenticateToken
Protected ==
  {"logout", "profile", "updatePassword", "updateUser", "deleteUser", "userStats",
   "listUsers", "createMessage", "updateMessage", "deleteMessage"}

\* C3: authenticateToken lets a request pass, with the account of the token
\* attached, exactly when a bearer token is there, its signature verifies and
\* is not expired, and its account exists and is active; every other request
\* is answered by it with 401 or 403, has no principal attached and never
\* reaches its handler.  The step writes no table, and no request behind it
\* has a principal or a handler run without having passed.
C3_AuthenticateExactlyWhenValid ==
  [][ \A r \in DOMAIN reqs :
        LET token == reqs[r].token
            valid == SignatureValid(token, "JWT_SECRET") /\ ActiveAccount(token.userId)
        IN /\ (reqs[r].pc = "auth" /\ reqs'[r] # reqs[r]) =>
                /\ db' = db /\ audit_logs' = audit_logs /\ issued' = issued
                /\ reqs'[r].passed <=> valid
                /\ valid => /\ reqs'[r].user.id = token.userId
                            /\ reqs'[r].user.role = users[token.userId].role
                /\ ~valid => /\ reqs'[r].pc = "done"
                             /\ reqs'[r].status \in {401, 403}
                             /\ reqs'[r].user = NoUser
                             /\ ~reqs'[r].ran
                             /\ reqs'[r].wrote = {}
           /\ (reqs'[r].op \in Protected /\ ~reqs'[r].passed) =>
                /\ reqs'[r].user = NoUser /\ ~reqs'[r].ran /\ reqs'[r].wrote = {}
                /\ reqs'[r].pc \in {"auth", "done"} ]_vars

\* A request carrying a well-signed, unexpired token of an account that has
\* been suspended was answered 401 without reaching its handler.
C3_Witness ==
  \E r \in DOMAIN reqs :
    LET token == reqs[r].token
    IN /\ reqs[r].op \in Protected /\ reqs[r].pc = "done"
       /\ SignatureValid(token, "JWT_SECRET")
       /\ users[token.userId].status = "suspended"
       /\ reqs[r].status = 401 /\ ~reqs[r].passed /\ ~reqs[r].ran
       /\ reqs[r].user = NoUser

\* C4: authenticateToken accepts an access token in the clock unit of its
\* minting while its account is active; once the clock has reached the
\* token's exp it answers 401 'Token expired', a token that is not signed
\* with the server's key gets 403 'Invalid token', and a request without a
\* token gets 401 'Access token required'.  Every access token handed out
\* expires after its minting.
C4_ExpiredIsToldApart ==
  [][ /\ \A t \in issued' : t.secret = "JWT_SECRET" => t.iat < t.exp
      /\ \A r \in DOMAIN reqs :
           LET token == reqs[r].token
               answer == <<reqs'[r].status, reqs'[r].message>>
           IN (reqs[r].pc = "auth" /\ reqs'[r] # reqs[r]) =>
                /\ token = NoToken => answer = <<401, "Access token required">>
                /\ (token # NoToken /\ token.secret # "JWT_SECRET")
                     => answer = <<403, "Invalid token">>
                /\ (token # NoToken /\ token.secret = "JWT_SECRET" /\ now >= token.exp)
                     => answer = <<401, "Token expired">>
                /\ (token # NoToken /\ token.secret = "JWT_SECRET" /\ now = token.iat
                      /\ ActiveAccount(token.userId))
                     => reqs'[r].passed ]_vars

\* A request with an access token whose exp the clock has reached was
\* answered 401 'Token expired', its account still active.
C4_Witness ==
  \E r \in DOMAIN reqs :
    LET token == reqs[r].token
    IN /\ reqs[r].op \in Protected /\ reqs[r].pc = "done"
       /\ token # NoToken /\ token.secret = "JWT_SECRET" /\ now >= token.exp
       /\ ActiveAccount(token.userId)
       /\ reqs[r].status = 401 /\ reqs[r].message = "Token expired"

---------------------------------------------------------------------------
(* Two requests at a time: a login beside a password change *)

\* The member registered one clock unit ago and holds the tokens of the
\* registration; access tokens live LongAccessTTL here
SessionTokens(id) ==
  [accessToken |-> JwtSign("JWT_SECRET", id, LongAccessTTL, 0),
   refreshToken |-> JwtSign("JWT_REFRESH_SECRET", id, LongRefreshTTL, 0)]

SessionRow(id) ==
  [token |-> SessionTokens(id).refreshToken, user_id |-> id,
   expires_at |-> PersistTTL, is_revoked |-> FALSE]

InitRace ==
  /\ env = [JWT_EXPIRES_IN |-> LongAccessTTL, JWT_REFRESH_EXPIRES_IN |-> LongRefreshTTL]
  /\ now = 1
  /\ users = SeedUsers
  /\ refresh_tokens = {SessionRow("u1")}
  /\ messages = NoMessages
  /\ message_tags = {}
  /\ audit_logs = 0
  /\ issued = Hand(SessionTokens("u1"))
  /\ reqs = [r \in RaceSlots |-> Idle]

\* The member logs in with the old password, changes it to the new one, and
\* presents refresh tokens
RaceRequest(r) ==
  \/ Cardinality(refresh_tokens) < MaxRefreshRows /\ StartLogin(r, "ann@x.io", PwOld)
  \/ \E token \in Bearers \ {ForgedToken, NoToken} :
       StartUpdatePassword(r, token, "u1", PwOld, PwNew)
  \/ \E token \in RefreshInputs \ {ForgedToken, NoToken} : StartRefresh(r, token)

NextRace ==
  \E r \in RaceSlots :
    \/ RaceRequest(r)
    \/ Authenticate(r)
    \/ LoginSteps(r)
    \/ RefreshSteps(r)
    \/ PasswordSteps(r)

SpecRace == InitRace /\ [][NextRace]_vars

\* A password change of the account has been answered with success
PasswordChanged(id) ==
  \E r \in DOMAIN reqs :
    /\ reqs[r].op = "updatePassword" /\ reqs[r].pc = "done"
    /\ reqs[r].status = 200 /\ reqs[r].id = id

\* C5: once a password change of an account has been answered with success,
\* a refresh request that then has its token looked up is refused when the
\* token is one of that account issued on the old password (every login and
\* the registration of this specification verified the old password).
C5_OldPasswordTokensUnusable ==
  [][ \A r \in DOMAIN reqs :
        ( /\ reqs[r].pc = "refresh_token"
          /\ reqs'[r] # reqs[r]
          /\ PasswordChanged(reqs[r].raw.refreshToken.userId) )
        => reqs'[r].pc = "done" /\ reqs'[r].status = 401 ]_vars

---------------------------------------------------------------------------
(* The user routes, one request at a time *)

\* The row of a seeded account that has logged in once
Staff(id, email, username, role) ==
  [UserRow(id, email, username, BcryptHash(PwOld), role, "active")
     EXCEPT !.login_count = 1]

\* A member, an administrator and a third account that is a moderator or a
\* super administrator, each holding the tokens of a session begun one
\* clock unit ago
SessionUsers(thirdRole) ==
  [id \in UserIds |->
     CASE id = "u1" -> UserRow("u1", "ann@x.io", "ann", BcryptHash(PwOld), "user", "active")
       [] id = "u2" -> Staff("u2", "root@x.io", "root", "admin")
       [] id = "u3" -> Staff("u3", "mod@x.io", "mod", thirdRole)
       [] OTHER -> NoUser]

Sessions == {"u1", "u2", "u3"}

InitUsers ==
  /\ env = [JWT_EXPIRES_IN |-> LongAccessTTL, JWT_REFRESH_EXPIRES_IN |-> LongRefreshTTL]
  /\ now = 1
  /\ \E thirdRole \in {"moderator", "super_admin"} : users = SessionUsers(thirdRole)
  /\ refresh_tokens = {SessionRow(id) : id \in Sessions}
  /\ messages = NoMessages
  /\ message_tags = {}
  /\ audit_logs = 0
  /\ issued = UNION {Hand(SessionTokens(id)) : id \in Sessions}
  /\ reqs = [r \in Slots |-> Idle]

\* The bodies of PUT /api/users/:id that name a role, or a status an account
\* can have
RoleBodies ==
  {body \in UserBodies :
     "role" \in DOMAIN body \/ ("status" \in DOMAIN body /\ body["status"] \in UserStatuses)}

UserRequest(r) ==
  \/ \E token \in Bearers \ {ForgedToken}, id \in {"u1", "u3", BadUuid}, body \in RoleBodies :
       StartUpdateUser(r, token, id, body)
  \/ \E token \in Bearers \ {ForgedToken}, id \in IdParams : StartDeleteUser(r, token, id)
  \/ \E token \in Bearers \ {ForgedToken}, op \in {"userStats", "listUsers"} :
       StartUserRead(r, token, op)
  \/ \E email \in {"new@x.io", "Ann@X.io"}, username \in {"neo", "root"},
        password \in {PwNew}, role \in {None, "admin"} :
       StartRegister(r, email, username, password, role)

RegisterSteps(r) ==
  RegSelect(r) \/ RegInsert(r) \/ RegStore(r) \/ RegAudit(r) \/ RegRespond(r)

UpdateUserSteps(r) ==
  UuSelect(r) \/ UuUsername(r) \/ UuUpdate(r) \/ UuAudit(r) \/ UuRespond(r)

DeleteUserSteps(r) == DuSelect(r) \/ DuDelete(r) \/ DuAudit(r) \/ DuRespond(r)

NextUsers ==
  \E r \in Slots :
    \/ UserRequest(r)
    \/ Authenticate(r)
    \/ UuSelect(r) \/ UuUpdate(r) \/ UuAudit(r) \/ UuRespond(r)
    \/ DeleteUserSteps(r)
    \/ UserReadSelect(r)
    \/ RegisterSteps(r)

SpecUsers == InitUsers /\ [][NextUsers]_vars

---------------------------------------------------------------------------
(* Properties of the user routes *)

\* The request of slot r takes a step
Steps(r) == reqs'[r] # reqs[r]

\* The fields of a raw body that updateUser reads after the whitelist, role
\* and status apart
Honoured(raw) == DOMAIN raw \cap {"username", "bio"}

\* C6: the role or the status of an existing account changes only in the
\* UPDATE of a PUT /api/users/:id whose caller was authenticated with role
\* admin or super_admin; an account is created with role user; and when a
\* caller of role user or moderator updates its own account, role and
\* status in the body are left out of the update while the rest of the
\* request goes on as it would without them: it is never answered 403,
\* and it reaches the UPDATE exactly when the body names another field the
\* handler takes.
C6_RoleAndStatusOnlyByAdmin ==
  [][ /\ \A id \in UserIds :
           /\ ( /\ users[id].id = id /\ users'[id].id = id
                /\ (users'[id].role # users[id].role
                      \/ users'[id].status # users[id].status) )
              => \E r \in DOMAIN reqs :
                   /\ Steps(r) /\ reqs[r].op = "updateUser" /\ reqs[r].id = id
                   /\ reqs[r].user.role \in {"admin", "super_admin"}
           /\ (users[id].id # id /\ users'[id].id = id) => users'[id].role = "user"
      /\ \A r \in DOMAIN reqs :
           ( /\ Steps(r) /\ reqs[r].op = "updateUser" /\ reqs[r].pc = "uu_select"
             /\ reqs[r].user.role \in {"user", "moderator"}
             /\ reqs[r].user.id = reqs[r].id /\ users[reqs[r].id].id = reqs[r].id
             /\ "username" \notin DOMAIN reqs[r].raw )
           => /\ reqs'[r].status # 403
              /\ IF Honoured(reqs[r].raw) # {}
                 THEN /\ reqs'[r].pc = "uu_update"
                      /\ DOMAIN reqs'[r].loc.updates = Honoured(reqs[r].raw)
                 ELSE /\ reqs'[r].pc = "done" /\ reqs'[r].status = 400
                      /\ reqs'[r].message = "No valid fields to update" ]_vars

\* A member's update of its own account that named role admin beside a bio
\* was answered 200; the bio is written and the role is still user.
C6_Witness ==
  \E r \in DOMAIN reqs :
    /\ reqs[r].op = "updateUser" /\ reqs[r].pc = "done" /\ reqs[r].status = 200
    /\ reqs[r].user.role = "user" /\ reqs[r].user.id = reqs[r].id
    /\ "role" \in DOMAIN reqs[r].raw /\ reqs[r].raw["role"] = "admin"
    /\ users[reqs[r].id].role = "user"
    /\ users[reqs[r].id].bio = reqs[r].raw["bio"]

\* C8: a request that has reached the user-list handler was authenticated
\* with role admin or moderator, one that has reached the statistics or the
\* delete handler with role admin; a request that passed authentication
\* with another role is answered 403 without its handler running or any
\* table written; and requireRole answers 401 to a request without a
\* principal.
C8_RoleGates ==
  /\ RequireAdmin(NoUser) = 401 /\ RequireModerator(NoUser) = 401
  /\ \A r \in DOMAIN reqs :
       LET q == reqs[r]
           allowed == IF q.op = "listUsers" THEN {"admin", "moderator"} ELSE {"admin"}
       IN q.op \in {"listUsers", "userStats", "deleteUser"} =>
            /\ q.ran => q.passed /\ q.user.role \in allowed
            /\ (q.passed /\ q.user.role \notin allowed) =>
                 /\ q.pc = "done" /\ q.status = 403 /\ ~q.ran /\ q.wrote = {}

\* A moderator asked for the user statistics and was answered 403 without
\* the handler running.
C8_Witness ==
  \E r \in DOMAIN reqs :
    /\ reqs[r].op = "userStats" /\ reqs[r].pc = "done" /\ reqs[r].passed
    /\ reqs[r].user.role = "moderator" /\ reqs[r].status = 403 /\ ~reqs[r].ran

\* The caller of a finished DELETE /api/users/:id named its own id
DeletedSelf(q) ==
  q.op = "deleteUser" /\ q.pc = "done" /\ q.passed /\ q.user.id = q.id

\* C10 as stated: a DELETE /api/users/:id whose :id is the caller's own id
\* is answered 400 and the account is still there.
C10_SelfDeleteIs400 ==
  \A r \in DOMAIN reqs :
    DeletedSelf(reqs[r]) =>
      reqs[r].status = 400 /\ users[reqs[r].id].id = reqs[r].id

\* C10, amended: a DELETE /api/users/:id whose :id is the caller's own id is
\* answered 400 when the caller is an admin and 403 by the role gate
\* otherwise; the account is still there; and no DELETE FROM users removes
\* the account of the request that runs it.
C10_SelfDeleteRefused ==
  [][ /\ \A r \in DOMAIN reqs :
           DeletedSelf(reqs'[r]) =>
             /\ reqs'[r].status = IF reqs'[r].user.role = "admin" THEN 400 ELSE 403
             /\ users'[reqs'[r].id].id = reqs'[r].id
             /\ "users" \notin reqs'[r].wrote
      /\ \A id \in UserIds :
           (users[id].id = id /\ users'[id].id # id)
             => \E r \in DOMAIN reqs :
                  /\ Steps(r) /\ reqs[r].op = "deleteUser" /\ reqs[r].id = id
                  /\ reqs[r].user.id # id ]_vars

\* An admin's DELETE of its own account was answered 400 'Cannot delete your
\* own account' and the account is still there.
C10_Witness ==
  \E r \in DOMAIN reqs :
    /\ DeletedSelf(reqs[r]) /\ reqs[r].user.role = "admin"
    /\ reqs[r].status = 400 /\ reqs[r].message = "Cannot delete your own account"
    /\ users[reqs[r].id].id = reqs[r].id

---------------------------------------------------------------------------
(* The update routes of users and messages, one request at a time *)

\* A body of POST /api/messages with this title
Post(title) == [f \in {"title", "content"} |-> IF f = "title" THEN title ELSE LongContent]

\* Two messages as createMessage has stored them: the administrator's,
\* tagged, and the member's, whose title gives the same slug
PostedMessages ==
  [m \in MessageIds |->
     CASE m = "m1" -> NewMessageRow("m1", Post("Hello World"), [id |-> "u2", role |-> "admin"],
                                    GenerateSlug("Hello World"))
       [] m = "m2" -> NewMessageRow("m2", Post("Hello, World!"), [id |-> "u1", role |-> "user"],
                                    Suffixed(GenerateSlug("Hello, World!"), 1))
       [] OTHER -> NoMessage]

InitContent ==
  /\ env = [JWT_EXPIRES_IN |-> LongAccessTTL, JWT_REFRESH_EXPIRES_IN |-> LongRefreshTTL]
  /\ now = 1
  /\ users = SessionUsers("moderator")
  /\ refresh_tokens = {SessionRow(id) : id \in Sessions}
  /\ messages = PostedMessages
  /\ message_tags = {<<"m1", "t1">>}
  /\ audit_logs = 0
  /\ issued = UNION {Hand(SessionTokens(id)) : id \in Sessions}
  /\ reqs = [r \in Slots |-> Idle]

\* The bodies of PUT /api/users/:id that name neither role nor status
ProfileBodies ==
  {body \in UserBodies : DOMAIN body \cap {"role", "status", "username"} = {} /\ body # EmptyBody}

\* The bodies of PUT /api/messages/:id that keep the title Hello World
EditBodies ==
  {body \in MessageBodies : body["title"] = "Hello World"
                              /\ ("tags" \in DOMAIN body => body["tags"] = <<"t1">>)}

ContentRequest(r) ==
  \/ \E token \in Bearers \ {ForgedToken, NoToken}, body \in ProfileBodies :
       StartUpdateUser(r, token, "u1", body)
  \/ \E token \in Bearers \ {ForgedToken}, id \in MessageIds, body \in EditBodies :
       StartUpdateMessage(r, token, id, body)
  \/ \E token \in Bearers \ {ForgedToken}, id \in MessageIds : StartDeleteMessage(r, token, id)

UpdateMessageSteps(r) ==
  UmSelect(r) \/ UmSlug(r) \/ UmUpdate(r) \/ UmUntag(r) \/ UmTag(r) \/ UmAudit(r)
    \/ UmRespond(r)

DeleteMessageSteps(r) == DmSelect(r) \/ DmDelete(r) \/ DmAudit(r) \/ DmRespond(r)

NextContent ==
  \E r \in Slots :
    \/ ContentRequest(r)
    \/ Authenticate(r)
    \/ UuSelect(r) \/ UuUpdate(r) \/ UuAudit(r) \/ UuRespond(r)
    \/ UpdateMessageSteps(r)
    \/ DeleteMessageSteps(r)

SpecContent == InitContent /\ [][NextContent]_vars

---------------------------------------------------------------------------
(* Properties of the update routes *)

\* The columns of row `before` that differ in row `after`
Changed(before, after) == {c \in DOMAIN before : after[c] # before[c]}

\* C7: a step of PUT /api/users/:id changes no table but users and no row
\* but the one of :id, and every column it changes is on the user
\* allow-list, is named as it stands in the request body, and takes the
\* body's value; a step of PUT /api/messages/:id changes no row of users or
\* refresh_tokens and no message but :id, and every column it changes is
\* on the message allow-list and takes the value the body gives under that
\* name, or is the slug (with a title in the body) or published_at (with
\* status active in the body), which the server derives.  So id, email,
\* password_hash and login_count of a user and id, author_id, view_count
\* and like_count of a message are never changed by an update.
C7_OnlyAllowListedColumns ==
  [][ \A r \in DOMAIN reqs :
        LET raw == reqs[r].raw
        IN /\ (Steps(r) /\ reqs[r].op = "updateUser") =>
                /\ messages' = messages /\ message_tags' = message_tags
                /\ refresh_tokens' = refresh_tokens
                /\ \A id \in UserIds :
                     users'[id] # users[id] =>
                       /\ id = reqs[r].id
                       /\ DOMAIN users'[id] = DOMAIN users[id]
                       /\ \A c \in Changed(users[id], users'[id]) :
                            /\ c \in ALLOWED_USER_UPDATE_FIELDS
                            /\ c \in DOMAIN raw /\ users'[id][c] = raw[c]
                            /\ c \notin {"id", "email", "password_hash", "login_count"}
           /\ (Steps(r) /\ reqs[r].op = "updateMessage") =>
                /\ users' = users /\ refresh_tokens' = refresh_tokens
                /\ \A m \in MessageIds :
                     messages'[m] # messages[m] =>
                       /\ m = reqs[r].id
                       /\ DOMAIN messages'[m] = DOMAIN messages[m]
                       /\ \A c \in Changed(messages[m], messages'[m]) :
                            /\ \/ /\ c \in ALLOWED_MESSAGE_UPDATE_FIELDS
                                  /\ c \in DOMAIN raw /\ messages'[m][c] = raw[c]
                               \/ c = "slug" /\ "title" \in DOMAIN raw
                               \/ /\ c = "published_at" /\ "status" \in DOMAIN raw
                                  /\ raw["status"] = "active"
                            /\ c \notin {"id", "author_id", "view_count", "like_count"} ]_vars

\* A member's PUT on its own account with an email and a bio in the body was
\* answered 200: the bio is the body's, the email is not.
C7_Witness ==
  \E r \in DOMAIN reqs :
    /\ reqs[r].op = "updateUser" /\ reqs[r].pc = "done" /\ reqs[r].status = 200
    /\ "email" \in DOMAIN reqs[r].raw /\ "bio" \in DOMAIN reqs[r].raw
    /\ users[reqs[r].id].bio = reqs[r].raw["bio"]
    /\ users[reqs[r].id].email # reqs[r].raw["email"]

\* C9: when PUT or DELETE /api/messages/:id finds the message and its caller
\* is neither the author nor a moderator or admin, the request is answered
\* 403 in that step, has written nothing, and the messages and their tags
\* are as they were.
C9_NonAuthorRefused ==
  [][ \A r \in DOMAIN reqs :
        ( /\ Steps(r) /\ reqs[r].pc \in {"um_select", "dm_select"}
          /\ messages[reqs[r].id].id = reqs[r].id
          /\ reqs[r].user.role \notin {"admin", "moderator"}
          /\ reqs[r].user.id # messages[reqs[r].id].author_id )
        => /\ reqs'[r].pc = "done" /\ reqs'[r].status = 403
           /\ reqs'[r].wrote = {}
           /\ messages' = messages /\ message_tags' = message_tags ]_vars

\* A member's PUT with a valid body on the administrator's message was
\* answered 403; the message and its tag are as posted.
C9_Witness ==
  \E r \in DOMAIN reqs :
    /\ reqs[r].op = "updateMessage" /\ reqs[r].pc = "done" /\ reqs[r].status = 403
    /\ reqs[r].passed /\ reqs[r].ran /\ reqs[r].user.role = "user"
    /\ reqs[r].raw \in EditBodies
    /\ messages[reqs[r].id].author_id # reqs[r].user.id
    /\ messages[reqs[r].id] = PostedMessages[reqs[r].id]
    /\ <<reqs[r].id, "t1">> \in message_tags

---------------------------------------------------------------------------
(* Deleting an administrator *)

\* C11: when a DELETE /api/users/:id on another account has been answered
\* and that account is still there with role admin, the caller was not a
\* super_admin and the answer was 403 (a super_admin's request is carried
\* out); and an account with role admin is removed only by a step of a
\* DELETE whose caller is a super_admin other than the account.
C11_AdminDeletedOnlyBySuperAdmin ==
  [][ /\ \A r \in DOMAIN reqs :
           LET q == reqs'[r]
           IN ( /\ q.op = "deleteUser" /\ q.pc = "done" /\ q.passed
                /\ q.id \in UserIds /\ q.id # q.user.id
                /\ users'[q.id].id = q.id /\ users'[q.id].role = "admin" )
              => q.user.role # "super_admin" /\ q.status = 403
      /\ \A id \in UserIds :
           (users[id].id = id /\ users[id].role = "admin" /\ users'[id].id # id)
             => \E r \in DOMAIN reqs :
                  /\ Steps(r) /\ reqs[r].op = "deleteUser" /\ reqs[r].id = id
                  /\ reqs[r].user.role = "super_admin" /\ reqs[r].user.id # id ]_vars

---------------------------------------------------------------------------
(* Registration and login *)

\* Some account holds this email address or this username
InUse(email, username) ==
  \E id \in UserIds :
    users[id].id = id /\ (users[id].email = email \/ users[id].username = username)

\* C12: when a registration looks up its email address and username and
\* either is held by an account, the request is answered 400 in that step
\* with no tokens; it has written nothing and logged nothing, and users,
\* refresh_tokens and audit_logs are as they were.
C12_DuplicateRegistrationRefused ==
  [][ \A r \in DOMAIN reqs :
        ( /\ Steps(r) /\ reqs[r].op = "register" /\ reqs[r].pc = "reg_select"
          /\ InUse(reqs[r].raw.email, reqs[r].raw.username) )
        => /\ reqs'[r].pc = "done" /\ reqs'[r].status = 400
           /\ reqs'[r].out = NoOut
           /\ reqs'[r].wrote = {} /\ reqs'[r].audit = <<>>
           /\ users' = users /\ refresh_tokens' = refresh_tokens
           /\ audit_logs' = audit_logs /\ issued' = issued ]_vars

\* A registration with a fresh email address and the administrator's
\* username was answered 400, and no account was created.
C12_Witness ==
  \E r \in DOMAIN reqs :
    /\ reqs[r].op = "register" /\ reqs[r].pc = "done" /\ reqs[r].status = 400
    /\ reqs[r].raw.email = "new@x.io" /\ reqs[r].raw.username = "root"
    /\ ~InUse("new@x.io", "neo") /\ InUse("root@x.io", "root")
    /\ \A id \in UserIds : users[id].id = id => users[id].email # "new@x.io"
    /\ reqs[r].wrote = {} /\ reqs[r].audit = <<>>


\* The accounts a login with these credentials is good for: the email
\* address is the account's, the account is active and the password is the
\* one its hash was made from
GoodFor(email, password) ==
  {id \in UserIds :
     /\ users[id].id = id /\ users[id].email = LowerTrim(email)
     /\ users[id].status = "active"
     /\ BcryptCompare(password, users[id].password_hash)}

---------------------------------------------------------------------------
(* Creating, retitling and deleting messages, one request at a time *)

\* The bodies of the messages whose titles give the slug hello-world or
\* hello-world-1
SlugBodies == {Post("Hello World"), Post("Hello, World!"), Post("Hello World 1")}

InitSlugs ==
  /\ env = [JWT_EXPIRES_IN |-> LongAccessTTL, JWT_REFRESH_EXPIRES_IN |-> LongRefreshTTL]
  /\ now = 1
  /\ users = SessionUsers("moderator")
  /\ refresh_tokens = {SessionRow(id) : id \in Sessions}
  /\ messages = NoMessages
  /\ message_tags = {}
  /\ audit_logs = 0
  /\ issued = UNION {Hand(SessionTokens(id)) : id \in Sessions}
  /\ reqs = [r \in Slots |-> Idle]

\* The member creates, the member and the administrator retitle, the
\* administrator deletes
SlugRequest(r) ==
  \/ \E body \in SlugBodies :
       StartCreateMessage(r, SessionTokens("u1").accessToken, body)
  \/ \E caller \in {"u1", "u2"}, id \in MessageIds, body \in SlugBodies :
       StartUpdateMessage(r, SessionTokens(caller).accessToken, id, body)
  \/ \E id \in MessageIds :
       StartDeleteMessage(r, SessionTokens("u2").accessToken, id)

CreateMessageSteps(r) == CmSlug(r) \/ CmInsert(r) \/ CmAudit(r) \/ CmRespond(r)

NextSlugs ==
  \E r \in Slots :
    \/ SlugRequest(r)
    \/ Authenticate(r)
    \/ CreateMessageSteps(r)
    \/ UmSelect(r) \/ UmSlug(r) \/ UmUpdate(r) \/ UmAudit(r) \/ UmRespond(r)
    \/ DeleteMessageSteps(r)

SpecSlugs == InitSlugs /\ [][NextSlugs]_vars

\* The slugs stored in rows other than the row of id
StoredSlugs(id) ==
  {messages[m].slug : m \in {x \in MessageIds : messages[x].id = x /\ x # id}}

\* s, s-1, s-2, s-3: the slugs the loop tries, in its order
Tried(s) == <<s, s \o <<"-", "1">>, s \o <<"-", "2">>, s \o <<"-", "3">>>>

\* The first of s, s-1, s-2, ... that is not in stored
FirstFree(s, stored) ==
  Tried(s)[CHOOSE k \in 1..4 :
             /\ Tried(s)[k] \notin stored
             /\ \A j \in 1..(k - 1) : Tried(s)[j] \in stored]

\* C14: with one request at a time, the INSERT of a createMessage stores a
\* row, and a row that appears in messages has the first of s, s-1, s-2,
\* ... that no stored message has, s being the slug of its title: the first
\* of three same-slug titles gets s, the second s-1 and the third s-2.
C14_CreateTakesFirstFreeSlug ==
  [][ /\ \A r \in DOMAIN reqs :
           (Steps(r) /\ reqs[r].pc = "cm_insert")
             => \E m \in MessageIds : messages[m] = NoMessage /\ messages'[m].id = m
      /\ \A m \in MessageIds :
           (messages[m] = NoMessage /\ messages'[m].id = m)
             => messages'[m].slug
                  = FirstFree(GenerateSlug(messages'[m].title), StoredSlugs(m)) ]_vars

\* Three messages whose titles give the slug hello-world are stored with
\* the slugs hello-world, hello-world-1 and hello-world-2, in the order of
\* their creation.
C14_Witness ==
  LET s == <<"h", "e", "l", "l", "o", "-", "w", "o", "r", "l", "d">>
  IN /\ \A m \in MessageIds :
          messages[m].id = m /\ messages[m].title \in {"Hello World", "Hello, World!"}
     /\ messages["m1"].slug = s
     /\ messages["m2"].slug = s \o <<"-", "1">>
     /\ messages["m3"].slug = s \o <<"-", "2">>
     /\ \E r \in DOMAIN reqs :
          /\ reqs[r].op = "createMessage" /\ reqs[r].pc = "done"
          /\ reqs[r].status = 201


\* C15: no two stored messages have the same slug; and, with one request
\* at a time, a write that changes the title of a stored message gives it
\* the first of s, s-1, s-2, ... that no other stored message has, s being
\* the slug of the new title, while a write that leaves the title leaves
\* the slug.
C15_SlugUniqueAndFollowsTitle ==
  [][ /\ \A a \in MessageIds : \A b \in MessageIds \ {a} :
           (messages'[a].id = a /\ messages'[b].id = b)
             => messages'[a].slug # messages'[b].slug
      /\ \A m \in MessageIds :
           (messages[m].id = m /\ messages'[m].id = m)
             => IF messages'[m].title # messages[m].title
                THEN messages'[m].slug
                       = FirstFree(GenerateSlug(messages'[m].title), StoredSlugs(m))
                ELSE messages'[m].slug = messages[m].slug ]_vars

\* The first message was retitled Hello World while the second held the
\* slug hello-world: the update was answered 200 and the first message has
\* the slug hello-world-1.
C15_Witness ==
  LET s == <<"h", "e", "l", "l", "o", "-", "w", "o", "r", "l", "d">>
  IN \E r \in DOMAIN reqs :
       /\ reqs[r].op = "updateMessage" /\ reqs[r].pc = "done" /\ reqs[r].status = 200
       /\ reqs[r].id = "m1" /\ reqs[r].raw["title"] = "Hello World"
       /\ messages["m1"].title = "Hello World"
       /\ messages["m1"].slug = s \o <<"-", "1">>
       /\ messages["m2"].id = "m2" /\ messages["m2"].slug = s

---------------------------------------------------------------------------
(* controllers/messageController.js: getMessageBySlug *)

\* The views the model counts per message before it stops sending more
MaxViews == 2

\* optionalAuth: the user of a good token of an active account, and next()
\* without a user for every other header
OptionalUser(token) ==
  IF AuthenticateResult(token)[1] = 0 THEN SelectActiveUser(token.userId) ELSE NoUser

\* A :slug parameter is text: an id, which the UUID pattern matches and the
\* model writes as one symbol, or the characters of a slug
ById(id) == [isUUID |-> TRUE, text |-> <<id>>]
BySlug(slug) == [isUUID |-> FALSE, text |-> slug]

\* const whereClause = isUUID ? 'm.id = $1' : 'm.slug = $1'
SelectMessage(param) ==
  LET hits == IF param.isUUID
              THEN {m \in MessageIds : messages[m].id = m /\ <<m>> = param.text}
              ELSE {m \in MessageIds : messages[m].id = m /\ messages[m].slug = param.text}
  IN IF hits = {} THEN NoMessage ELSE messages[CHOOSE m \in hits : TRUE]

\* message.status !== 'active' && req.user?.role !== 'admin' &&
\* req.user?.role !== 'moderator' && req.user?.id !== message.author_id
ViewRefused(user, message) ==
  /\ message.status # "active"
  /\ (user = NoUser \/ user.id # message.author_id)
  /\ (user = NoUser \/ user.role \notin {"admin", "moderator"})

StartViewMessage(r, token, param) ==
  /\ Free(r)
  /\ reqs' = [reqs EXCEPT ![r] = NewReq("getMessage", "view_auth", token, None, param)]
  /\ UNCHANGED <<env, now, db, audit_logs, issued>>

OptionalAuth(r) ==
  LET q == reqs[r]
  IN /\ q.pc = "view_auth"
     /\ reqs' = [reqs EXCEPT ![r] =
          [q EXCEPT !.user = OptionalUser(q.token), !.passed = TRUE, !.ran = TRUE,
                    !.pc = "view_select"]]
     /\ UNCHANGED <<env, now, db, audit_logs, issued>>

\* The SELECT of the message and the check of who may see it
ViewSelect(r) ==
  LET q == reqs[r]
      message == SelectMessage(q.raw)
  IN /\ q.pc = "view_select"
     /\ reqs' = [reqs EXCEPT ![r] =
          IF message = NoMessage THEN Respond(q, 404, "Message not found", NoOut)
          ELSE IF ViewRefused(q.user, message)
          THEN Respond(q, 404, "Message not found", NoOut)
          ELSE [q EXCEPT !.loc = [message |-> message, stored |-> message.view_count],
                         !.pc = IF message.status = "active" THEN "view_update"
                                ELSE "view_respond"]]
     /\ UNCHANGED <<env, now, db, audit_logs, issued>>

\* UPDATE messages SET view_count = view_count + 1 WHERE id = $1.  stored
\* remembers the value this statement wrote.
ViewUpdate(r) ==
  LET q == reqs[r]
      id == q.loc.message.id
  IN /\ q.pc = "view_update"
     /\ messages' = IF MessageExists(id)
                    THEN [messages EXCEPT ![id].view_count = @ + 1]
                    ELSE messages
     /\ reqs' = [reqs EXCEPT ![r] =
          [Wrote(q, "messages") EXCEPT
             !.pc = "view_respond",
             !.loc.stored = IF MessageExists(id) THEN messages[id].view_count + 1
                            ELSE q.loc.stored]]
     /\ UNCHANGED <<env, now, users, refresh_tokens, message_tags, audit_logs, issued>>

\* res.json({ ..., viewCount: message.view_count + 1, ... })
ViewRespond(r) ==
  LET q == reqs[r]
  IN /\ q.pc = "view_respond"
     /\ reqs' = [reqs EXCEPT ![r] =
          Respond(q, 200, "", [viewCount |-> q.loc.message.view_count + 1])]
     /\ UNCHANGED <<env, now, db, audit_logs, issued>>

ViewSteps(r) == OptionalAuth(r) \/ ViewSelect(r) \/ ViewUpdate(r) \/ ViewRespond(r)

(* Two readers at a time *)

\* The administrator's message, published, and the member's, hidden
ViewedMessages ==
  [m \in MessageIds |->
     CASE m = "m1" -> PostedMessages["m1"]
       [] m = "m2" -> [PostedMessages["m2"] EXCEPT !.status = "hidden", !.published_at = -1]
       [] OTHER -> NoMessage]

InitViews ==
  /\ env = [JWT_EXPIRES_IN |-> LongAccessTTL, JWT_REFRESH_EXPIRES_IN |-> LongRefreshTTL]
  /\ now = 1
  /\ users = SessionUsers("moderator")
  /\ refresh_tokens = {SessionRow(id) : id \in Sessions}
  /\ messages = ViewedMessages
  /\ message_tags = {<<"m1", "t1">>}
  /\ audit_logs = 0
  /\ issued = UNION {Hand(SessionTokens(id)) : id \in Sessions}
  /\ reqs = [r \in RaceSlots |-> Idle]

\* The :slug parameters of the model: an id, the slugs of the two messages
\* and a slug no message has
ViewParams ==
  {ById("m1"), BySlug(PostedMessages["m1"].slug), BySlug(PostedMessages["m2"].slug),
   BySlug(GenerateSlug("Hey"))}

ViewRequest(r) ==
  \E token \in {NoToken, SessionTokens("u1").accessToken, SessionTokens("u2").accessToken},
     param \in ViewParams :
    /\ \A m \in MessageIds : messages[m].id = m => messages[m].view_count < MaxViews
    /\ StartViewMessage(r, token, param)

NextViews == \E r \in RaceSlots : ViewRequest(r) \/ ViewSteps(r)

SpecViews == InitViews /\ [][NextViews]_vars

\* C16: the UPDATE of a view raises the stored view_count of the message it
\* read by exactly 1 and changes nothing else, and the viewCount of the
\* response to a view of a published message is the value that UPDATE
\* stored.
C16_ViewCountInResponseIsStored ==
  [][ \A r \in DOMAIN reqs :
        /\ (Steps(r) /\ reqs[r].pc = "view_update")
             => /\ messages'[reqs[r].loc.message.id].view_count
                     = messages[reqs[r].loc.message.id].view_count + 1
                /\ \A m \in MessageIds \ {reqs[r].loc.message.id} :
                     messages'[m] = messages[m]
        /\ ( /\ Steps(r) /\ reqs[r].pc = "view_respond"
             /\ reqs[r].loc.message.status = "active" )
             => /\ reqs'[r].status = 200
                /\ reqs'[r].out.viewCount = reqs[r].loc.stored ]_vars

---------------------------------------------------------------------------
(* Every mutating request once, with an audit insert that succeeds or fails *)

InitAudit == InitContent

\* One request of each mutating kind
AuditRequest(r) ==
  \/ StartRegister(r, "new@x.io", "neo", PwNew, None)
  \/ StartLogin(r, "ann@x.io", PwOld)
  \/ StartLogout(r, SessionTokens("u1").accessToken, SessionTokens("u1").refreshToken)
  \/ StartUpdatePassword(r, SessionTokens("u1").accessToken, "u1", PwOld, PwNew)
  \/ StartUpdateUser(r, SessionTokens("u1").accessToken, "u1", [f \in {"bio"} |-> "hi"])
  \/ StartDeleteUser(r, SessionTokens("u2").accessToken, "u3")
  \/ StartCreateMessage(r, SessionTokens("u1").accessToken, Post("Hello World"))
  \/ StartUpdateMessage(r, SessionTokens("u1").accessToken, "m2", Post("Hello World 1"))
  \/ StartDeleteMessage(r, SessionTokens("u2").accessToken, "m1")

NextAudit ==
  \E r \in Slots :
    \/ AuditRequest(r)
    \/ Authenticate(r)
    \/ RegisterSteps(r)
    \/ LoginSteps(r)
    \/ LogoutSteps(r)
    \/ PasswordSteps(r)
    \/ UuSelect(r) \/ UuUpdate(r) \/ UuAudit(r) \/ UuRespond(r)
    \/ DeleteUserSteps(r)
    \/ CreateMessageSteps(r)
    \/ UmSelect(r) \/ UmSlug(r) \/ UmUpdate(r) \/ UmAudit(r) \/ UmRespond(r)
    \/ DeleteMessageSteps(r)

SpecAudit == InitAudit /\ [][NextAudit]_vars

\* Where each handler stands when it calls createAuditLog, and where it
\* goes on from there
AfterAudit ==
  [reg_audit |-> "reg_respond", login_audit |-> "login_respond",
   logout_audit |-> "logout_respond", pw_audit |-> "pw_respond",
   uu_audit |-> "uu_respond", du_audit |-> "du_respond",
   cm_audit |-> "cm_respond", um_audit |-> "um_respond", dm_audit |-> "dm_respond"]

\* The request without the record of what it tried to log
LessAudit(q) == [q EXCEPT !.audit = <<>>]

\* C17: the step of a mutating request that calls createAuditLog changes
\* no table but audit_logs, and whether or not the insert succeeds it
\* leaves the request as it was, at the handler's next statement; the
\* request is then answered 200 or 201 with all it wrote still written.
C17_AuditFailureIsSwallowed ==
  [][ \A r \in DOMAIN reqs :
        /\ (Steps(r) /\ reqs[r].pc \in DOMAIN AfterAudit)
             => /\ db' = db /\ issued' = issued
                /\ audit_logs' \in {audit_logs, audit_logs + 1}
                /\ LessAudit(reqs'[r])
                     = [LessAudit(reqs[r]) EXCEPT !.pc = AfterAudit[reqs[r].pc]]
        /\ (Steps(r) /\ reqs[r].pc \in {AfterAudit[p] : p \in DOMAIN AfterAudit})
             => /\ reqs'[r].pc = "done"
                /\ reqs'[r].status = IF reqs[r].op \in {"register", "createMessage"}
                                     THEN 201 ELSE 200
                /\ reqs'[r].out = IF reqs[r].op \in {"register", "login"}
                                  THEN reqs[r].loc.tokens ELSE NoOut
                /\ reqs'[r].wrote = reqs[r].wrote
                /\ db' = db /\ audit_logs' = audit_logs ]_vars

\* The administrator's DELETE of the first message was answered 200 and the
\* message is gone, although the insert into audit_logs failed and no entry
\* was ever written.
C17_Witness ==
  \E r \in DOMAIN reqs :
    /\ reqs[r].op = "deleteMessage" /\ reqs[r].pc = "done" /\ reqs[r].status = 200
    /\ Len(reqs[r].audit) = 1 /\ ~reqs[r].audit[1].ok
    /\ audit_logs = 0
    /\ messages["m1"] = DeletedMessage

---------------------------------------------------------------------------
(* controllers/messageController.js: getMessages, and the list of users
   asked for with a query string *)

\* GET /api/users?page&limit&sort&order
StartListUsers(r, token, query) ==
  /\ Free(r)
  /\ reqs' = [reqs EXCEPT ![r] = NewReq("listUsers", "auth", token, None, query)]
  /\ UNCHANGED <<env, now, db, audit_logs, issued>>

\* GET /api/messages?page&limit&sort&order
StartListMessages(r, token, query) ==
  /\ Free(r)
  /\ reqs' = [reqs EXCEPT ![r] = NewReq("getMessages", "mlist_auth", token, None, query)]
  /\ UNCHANGED <<env, now, db, audit_logs, issued>>

\* GET / is optionalAuth, validatePagination, getMessages, up to the first
\* query of the handler
MlAuth(r) ==
  LET q == reqs[r]
      known == [q EXCEPT !.user = OptionalUser(q.token), !.passed = TRUE]
  IN /\ q.pc = "mlist_auth"
     /\ reqs' = [reqs EXCEPT ![r] =
          IF ~ValidatePagination(q.body)
          THEN Respond(known, 400, "Validation failed", NoOut)
          ELSE [known EXCEPT !.ran = TRUE,
                             !.loc = ListLocals(MessageSortFields, q.body),
                             !.pc = "mlist_select"]]
     /\ UNCHANGED <<env, now, db, audit_logs, issued>>

\* buildSafeWhereClause with the status filter left out: active messages
\* only, for every caller who is not staff
WhereClause_ActiveOnly(query, user, message) ==
  (user = NoUser \/ user.role \notin {"admin", "moderator"}) => message.status = "active"

\* buildSafeWhereClause on a row: if (status) m.status = $n, else for a
\* caller who is neither admin nor moderator m.status = 'active'
WhereClause(query, user, message) ==
  IF Has(query, "status") THEN message.status = query["status"]
  ELSE (user = NoUser \/ user.role \notin {"admin", "moderator"})
         => message.status = "active"

\* The rows the WHERE of getMessages keeps
Matching(query, user) ==
  {m \in MessageIds : MessageExists(m) /\ WhereClause(query, user, messages[m])}

\* The pages LIMIT limit OFFSET offset can cut from these rows, whatever
\* the order
PagesOf(rows, limit, offset) ==
  LET left == Cardinality(rows) - offset
      size == IF left < 0 THEN 0 ELSE IF left < limit THEN left ELSE limit
  IN {page \in SUBSET rows : Cardinality(page) = size}

\* The COUNT and the SELECT ... ORDER BY m.${sort} ${order} LIMIT limit OFFSET
\* offset of getMessages, which write nothing, and res.json
MlSelect(r) ==
  LET q == reqs[r]
  IN /\ q.pc = "mlist_select"
     /\ \E page \in PagesOf(Matching(q.raw, q.user), q.loc.limit, q.loc.offset) :
          reqs' = [reqs EXCEPT ![r] =
            Respond(q, 200, "", [page |-> q.loc.page, limit |-> q.loc.limit,
                                 messages |-> page])]
     /\ UNCHANGED <<env, now, db, audit_logs, issued>>

(* The list routes asked with every kind of query string *)

InitLists == InitContent

Pages == {<<"0">>, <<"-", "1">>, <<"1">>, <<"2">>, Decimal(1000), Decimal(1001)}
Limits ==
  {<<"0">>, <<"-", "5">>, <<"1">>, <<"5", "0">>, Decimal(100), Decimal(101),
   Decimal(99999), <<"1", "2", "p", "x">>}
Sorts == {"created_at", "title", "email", "password_hash"}
Orders == {"asc", "desc", "ASC"}

QueryOf(fields, page, limit, sort, order) ==
  [f \in fields |->
     CASE f = "page" -> page [] f = "limit" -> limit [] f = "sort" -> sort
       [] OTHER -> order]

\* The query strings of the model: page and limit, either or none, and
\* sort and order, either or none
ListQueries ==
  {QueryOf(fields, page, limit, "created_at", "desc") :
     fields \in SUBSET {"page", "limit"}, page \in Pages, limit \in Limits}
  \cup {QueryOf(fields, <<"1">>, <<"1">>, sort, order) :
          fields \in SUBSET {"sort", "order"}, sort \in Sorts, order \in Orders}

ListRequest(r) ==
  \/ \E token \in {NoToken, SessionTokens("u1").accessToken,
                   SessionTokens("u3").accessToken},
        query \in ListQueries : StartListUsers(r, token, query)
  \/ \E token \in {NoToken, SessionTokens("u1").accessToken}, query \in ListQueries :
       StartListMessages(r, token, query)

NextLists ==
  \E r \in Slots :
    \/ ListRequest(r)
    \/ Authenticate(r)
    \/ UserReadSelect(r)
    \/ MlAuth(r)
    \/ MlSelect(r)

SpecLists == InitLists /\ [][NextLists]_vars

ListOps == {"listUsers", "getMessages"}
ListSelects == {"list_select", "mlist_select"}

\* The limit a request sent is a whole number from 1 to 100
LimitInRange(query) ==
  /\ ~ParseInt(query["limit"]).nan
  /\ ParseInt(query["limit"]).n \in 1..100

SortFieldsOf(op) == IF op = "listUsers" THEN UserSortFields ELSE MessageSortFields

\* C19: the SELECT of a list handler is ordered by a column of that
\* handler's allowedSortFields and in the direction asc or desc; a sort
\* parameter that is not on that list is never the column: the request is
\* answered 400 or the SELECT is ordered by created_at; and no request that
\* sent sort=password_hash is answered 200.
C19_OrderByOnAllowList ==
  [][\A r \in DOMAIN reqs :
       (Steps(r) /\ reqs'[r].op \in ListOps /\ reqs'[r].pc = "done") =>
         /\ reqs[r].pc \in ListSelects =>
              /\ reqs[r].loc.sort \in SortFieldsOf(reqs[r].op)
              /\ reqs[r].loc.order \in {"asc", "desc"}
              /\ (/\ Has(reqs[r].raw, "sort")
                  /\ reqs[r].raw["sort"] \notin SortFieldsOf(reqs[r].op)) =>
                   reqs[r].loc.sort = "created_at"
         /\ (/\ Has(reqs'[r].raw, "sort")
             /\ reqs'[r].raw["sort"] \notin SortFieldsOf(reqs'[r].op)
             /\ reqs[r].pc \notin ListSelects) =>
              reqs'[r].status \in {400, 401, 403}
         /\ (Has(reqs'[r].raw, "sort") /\ reqs'[r].raw["sort"] = "password_hash") =>
              reqs'[r].status \in {400, 401, 403}]_vars

\* The moderator asked for the users sorted by title, which the validator
\* lets through and getUsers does not know: the SELECT is about to run
\* ordered by created_at.
C19_Witness ==
  \E r \in DOMAIN reqs :
    /\ reqs[r].op = "listUsers" /\ reqs[r].pc = "list_select"
    /\ Has(reqs[r].raw, "sort") /\ reqs[r].raw["sort"] = "title"
    /\ reqs[r].loc.sort = "created_at"
    /\ Has(reqs[r].raw, "order") /\ reqs[r].raw["order"] = "asc"
    /\ reqs[r].loc.order = "asc"

---------------------------------------------------------------------------
(* A refresh beside the logout or the password change of the same session *)

InitRevoke == InitRace

\* The member presents the refresh token of the session, logs out of it and
\* changes the password, two requests at a time
RevokeRequest(r) ==
  \/ StartRefresh(r, SessionTokens("u1").refreshToken)
  \/ StartLogout(r, SessionTokens("u1").accessToken, SessionTokens("u1").refreshToken)
  \/ \E newPassword \in {PwNew, PwWeak} :
       StartUpdatePassword(r, SessionTokens("u1").accessToken, "u1", PwOld, newPassword)

NextRevoke ==
  \E r \in RaceSlots :
    \/ RevokeRequest(r)
    \/ Authenticate(r)
    \/ RefreshSteps(r)
    \/ LogoutSteps(r)
    \/ PasswordSteps(r)

SpecRevoke == InitRevoke /\ [][NextRevoke]_vars

\* C20: a refresh request that signs a new access token does so for a
\* refresh token whose row is not revoked in the database at the step of the
\* signing, whatever logout or password change runs beside it.
C20_NoMintAfterRevocation ==
  [][\A r \in DOMAIN reqs :
       (/\ Steps(r)
        /\ reqs[r].op = "refresh" /\ reqs[r].pc = "refresh_user"
        /\ reqs'[r].status = 200)
       => ~Revoked(reqs[r].raw.refreshToken)]_vars

---------------------------------------------------------------------------
(* The audit entry of a request that succeeds *)

MutatingOps ==
  {"register", "login", "logout", "updatePassword", "updateUser", "deleteUser",
   "createMessage", "updateMessage", "deleteMessage"}

\* The table the primary change of each request is written to
PrimaryTable ==
  [register |-> "users", login |-> "users", logout |-> "refresh_tokens",
   updatePassword |-> "users", updateUser |-> "users", deleteUser |-> "users",
   createMessage |-> "messages", updateMessage |-> "messages",
   deleteMessage |-> "messages"]

\* C21: a mutating request calls createAuditLog only after it has written
\* its primary change, and the call is over before the response; a
\* mutating request that is answered 200 or 201 has by then tried exactly
\* one audit entry, whose user_id is the caller: the authenticated user,
\* or for a registration and a login the account the returned tokens name.
C21_OneAuditAfterWriteBeforeResponse ==
  [][\A r \in DOMAIN reqs :
       /\ (Steps(r) /\ reqs'[r].audit # reqs[r].audit /\ reqs'[r].audit # <<>>) =>
            /\ reqs[r].op \in MutatingOps
            /\ reqs[r].audit = <<>> /\ Len(reqs'[r].audit) = 1
            /\ PrimaryTable[reqs[r].op] \in reqs[r].wrote
            /\ reqs'[r].wrote = reqs[r].wrote
            /\ reqs'[r].pc # "done" /\ reqs'[r].status = 0
       /\ (/\ Steps(r) /\ reqs'[r].pc = "done" /\ reqs[r].op \in MutatingOps
           /\ reqs'[r].status \in {200, 201}) =>
            /\ Len(reqs[r].audit) = 1
            /\ reqs'[r].audit = reqs[r].audit
            /\ audit_logs' = audit_logs
            /\ PrimaryTable[reqs[r].op] \in reqs'[r].wrote
            /\ reqs[r].audit[1].entry.user_id =
                 IF reqs[r].op \in {"register", "login"}
                 THEN reqs'[r].out.accessToken.userId
                 ELSE reqs[r].user.id]_vars

\* The registration of a new account was answered 201 after one audit entry
\* naming the new account was inserted.
C21_Witness ==
  \E r \in DOMAIN reqs :
    /\ reqs[r].op = "register" /\ reqs[r].pc = "done" /\ reqs[r].status = 201
    /\ Len(reqs[r].audit) = 1 /\ reqs[r].audit[1].ok
    /\ reqs[r].audit[1].entry.user_id = reqs[r].out.accessToken.userId
    /\ UserExists(reqs[r].audit[1].entry.user_id)
    /\ audit_logs = 1

---------------------------------------------------------------------------
(* Two creates of messages at a time *)

InitCreates ==
  /\ env = [JWT_EXPIRES_IN |-> LongAccessTTL, JWT_REFRESH_EXPIRES_IN |-> LongRefreshTTL]
  /\ now = 1
  /\ users = SessionUsers("moderator")
  /\ refresh_tokens = {SessionRow(id) : id \in Sessions}
  /\ messages = NoMessages
  /\ message_tags = {}
  /\ audit_logs = 0
  /\ issued = UNION {Hand(SessionTokens(id)) : id \in Sessions}
  /\ reqs = [r \in RaceSlots |-> Idle]

\* The member posts two titles that give the slug hello-world; the
\* administrator deletes
CreatesRequest(r) ==
  \/ \E body \in {Post("Hello World"), Post("Hello, World!")} :
       StartCreateMessage(r, SessionTokens("u1").accessToken, body)
  \/ \E id \in MessageIds :
       StartDeleteMessage(r, SessionTokens("u2").accessToken, id)

NextCreates ==
  \E r \in RaceSlots :
    \/ CreatesRequest(r)
    \/ Authenticate(r)
    \/ CreateMessageSteps(r)
    \/ DeleteMessageSteps(r)

SpecCreates == InitCreates /\ [][NextCreates]_vars

\* C22: no two stored messages have the same slug; the INSERT of a create
\* whose candidate slug a stored message has by then is refused by the
\* database, stores nothing and has the request answered 500; and that
\* only happens to a candidate that was free when the request checked it.
C22_DuplicateSlugFailsOneInsert ==
  [][ /\ \A a \in MessageIds : \A b \in MessageIds \ {a} :
           (messages'[a].id = a /\ messages'[b].id = b)
             => messages'[a].slug # messages'[b].slug
      /\ \A r \in DOMAIN reqs :
           (Steps(r) /\ reqs[r].pc = "cm_slug" /\ reqs'[r].pc = "cm_insert")
             => ~SlugTaken(reqs'[r].loc.finalSlug, None)
      /\ \A r \in DOMAIN reqs :
           (Steps(r) /\ reqs[r].pc = "cm_insert"
              /\ SlugTaken(reqs[r].loc.finalSlug, None))
             => /\ messages' = messages
                /\ reqs'[r].pc = "done" /\ reqs'[r].status = 500
                /\ "messages" \notin reqs'[r].wrote ]_vars

\* Two creates whose titles give the slug hello-world both passed the check
\* with the candidate hello-world: one stored its message and was answered
\* 201, the other was answered 500 and stored nothing.
C22_Witness ==
  LET s == <<"h", "e", "l", "l", "o", "-", "w", "o", "r", "l", "d">>
  IN /\ reqs["r1"].op = "createMessage" /\ reqs["r2"].op = "createMessage"
     /\ reqs["r1"].pc = "done" /\ reqs["r1"].status = 201
     /\ reqs["r2"].pc = "done" /\ reqs["r2"].status = 500
     /\ GenerateSlug(reqs["r1"].raw["title"]) = s
     /\ GenerateSlug(reqs["r2"].raw["title"]) = s
     /\ reqs["r2"].ran /\ reqs["r2"].wrote = {}
     /\ Cardinality({m \in MessageIds : MessageExists(m)}) = 1
     /\ \E m \in MessageIds : MessageExists(m) /\ messages[m].slug = s

---------------------------------------------------------------------------
(* The slug loop comes to an end *)

\* An awaited query is answered and the handler goes on: each turn of the
\* loop that can be taken is taken
SpecSlugsLive ==
  SpecSlugs /\ \A r \in Slots : WF_vars(CmSlug(r)) /\ WF_vars(UmSlug(r))

SlugLoops == {"cm_slug", "um_slug"}

StoredCount == Cardinality({m \in MessageIds : MessageExists(m)})

\* The candidates a loop with this counter has checked and found taken
Refused(q) ==
  {q.loc.slug} \cup {Suffixed(q.loc.slug, k) : k \in 1..(q.loc.counter - 2)}

\* C23: with the stored messages fixed while it runs, a turn of the slug
\* loop that finds its candidate taken goes on to the candidate with the
\* next suffix, one it has not tried before; a loop ends on a candidate no
\* (other) stored message has, after at most as many checks as there are
\* stored messages plus one; and every loop that has begun ends.
C23_SlugLoopTerminates ==
  /\ [][\A r \in Slots :
          (Steps(r) /\ reqs[r].pc \in SlugLoops) =>
            LET q == reqs[r]
                own == IF q.op = "updateMessage" THEN q.id ELSE None
            IN IF reqs'[r].pc = q.pc
               THEN /\ SlugTaken(q.loc.finalSlug, own)
                    /\ reqs'[r].loc.counter = q.loc.counter + 1
                    /\ reqs'[r].loc.finalSlug = Suffixed(q.loc.slug, q.loc.counter)
                    /\ reqs'[r].loc.finalSlug \notin Refused(reqs'[r])
                    /\ q.loc.counter <= StoredCount
               ELSE /\ ~SlugTaken(q.loc.finalSlug, own)
                    /\ q.loc.counter <= StoredCount + 1
                    /\ messages' = messages]_vars
  /\ \A r \in Slots :
       (reqs[r].pc \in SlugLoops) ~> (reqs[r].pc \notin SlugLoops)

\* A create found hello-world and hello-world-1 taken and has moved to
\* hello-world-2, which no stored message has: its third check will end
\* the loop.
C23_Witness ==
  \E r \in DOMAIN reqs :
    /\ reqs[r].op = "createMessage" /\ reqs[r].pc = "cm_slug"
    /\ reqs[r].loc.counter = 3
    /\ reqs[r].loc.finalSlug = Suffixed(GenerateSlug("Hello World"), 2)
    /\ ~SlugTaken(reqs[r].loc.finalSlug, None)
    /\ StoredCount = 2

---------------------------------------------------------------------------
(* Who is shown a message that is not active *)

\* The administrator's message, published, the member's, hidden, and a
\* hidden message of the administrator
ReadMessages ==
  [ViewedMessages EXCEPT
     !["m3"] = [NewMessageRow("m3", Post("Hello World 1"), [id |-> "u2", role |-> "admin"],
                              GenerateSlug("Hello World 1"))
                  EXCEPT !.status = "hidden", !.published_at = -1]]

InitReads ==
  /\ env = [JWT_EXPIRES_IN |-> LongAccessTTL, JWT_REFRESH_EXPIRES_IN |-> LongRefreshTTL]
  /\ now = 1
  /\ users = SessionUsers("moderator")
  /\ refresh_tokens = {SessionRow(id) : id \in Sessions}
  /\ messages = ReadMessages
  /\ message_tags = {<<"m1", "t1">>}
  /\ audit_logs = 0
  /\ issued = UNION {Hand(SessionTokens(id)) : id \in Sessions}
  /\ reqs = [r \in Slots |-> Idle]

\* The query strings with a status filter, a page size and a sort column,
\* each of them or none
ReadQueries ==
  {[f \in fields |->
      CASE f = "status" -> status [] f = "limit" -> <<"1">> [] OTHER -> "title"] :
     fields \in SUBSET {"status", "limit", "sort"},
     status \in {"active", "hidden", "deleted", "draft"}}

\* Nobody, the member and the moderator read the list and single messages
ReadRequest(r) ==
  \/ \E token \in {NoToken, SessionTokens("u1").accessToken,
                   SessionTokens("u3").accessToken},
        query \in ReadQueries : StartListMessages(r, token, query)
  \/ \E token \in {NoToken, SessionTokens("u1").accessToken,
                   SessionTokens("u3").accessToken},
        param \in ViewParams \cup {ById("m2"), ById("m3")} :
       /\ \A m \in MessageIds : messages[m].id = m => messages[m].view_count < MaxViews
       /\ StartViewMessage(r, token, param)

NextReads ==
  \E r \in Slots :
    \/ ReadRequest(r)
    \/ MlAuth(r)
    \/ MlSelect(r)
    \/ ViewSteps(r)

SpecReads == InitReads /\ [][NextReads]_vars

\* This caller may be shown this message
MayRead(user, message) ==
  \/ message.status = "active"
  \/ user # NoUser /\ user.role \in {"admin", "moderator"}
  \/ user # NoUser /\ user.id = message.author_id

\* C24: every message in a 200 response of GET /api/messages, and the
\* message of a 200 response of GET /api/messages/:slug, is active, or the
\* caller is an admin or a moderator, or the caller is its author.
C24_InactiveOnlyToStaffOrAuthor ==
  [][\A r \in DOMAIN reqs :
       (Steps(r) /\ reqs'[r].pc = "done" /\ reqs'[r].status = 200) =>
         /\ reqs[r].pc = "mlist_select" =>
              \A m \in reqs'[r].out.messages : MayRead(reqs[r].user, messages[m])
         /\ reqs[r].pc = "view_respond" =>
              MayRead(reqs[r].user, reqs[r].loc.message)]_vars

---------------------------------------------------------------------------
(* Logins of one account, two at a time *)

InitLogins == InitRace

\* The member logs in with the right password
LoginsRequest(r) ==
  Cardinality(refresh_tokens) < MaxRefreshRows /\ StartLogin(r, "ann@x.io", PwOld)

NextLogins ==
  \/ Tick
  \/ \E r \in RaceSlots :
       \/ LoginsRequest(r)
       \/ LoginSteps(r)

SpecLogins == InitLogins /\ [][NextLogins]_vars

\* C25: a mutating request that is answered 4xx or 500 has written no
\* table: users, refresh_tokens, messages and message_tags are as they
\* were when it came in; a login answered 500 has not changed login_count.
C25_ErrorLeavesTablesUnchanged ==
  [][\A r \in DOMAIN reqs :
       (/\ Steps(r) /\ reqs'[r].pc = "done" /\ reqs[r].op \in MutatingOps
        /\ reqs'[r].status >= 400)
       => reqs'[r].wrote = {} /\ db' = db]_vars


\* C27: a login that has verified its credentials stores a refresh token
\* no stored row has yet, whatever second it is signed in, and goes on to
\* be answered 200: storeRefreshToken never fails on the uniqueness of
\* refresh_tokens.token.
C27_StoredRefreshTokenIsNew ==
  [][\A r \in DOMAIN reqs :
       (Steps(r) /\ reqs[r].pc = "login_store") =>
         /\ \A row \in refresh_tokens :
              row.token # GenerateTokens(reqs[r].loc.user.id).refreshToken
         /\ refresh_tokens' # refresh_tokens
         /\ reqs'[r].pc = "login_audit" /\ reqs'[r].status = 0]_vars

\* C28: the login_count of the member is at least the number of logins of
\* the member that have been answered 200 (the account starts at 0 and
\* every such login adds one).
C28_NoLostLoginCount ==
  users["u1"].login_count
    >= Cardinality({r \in DOMAIN reqs :
                      /\ reqs[r].op = "login" /\ reqs[r].pc = "done"
                      /\ reqs[r].status = 200})

---------------------------------------------------------------------------
(* The camelCase fields of an update *)

\* C26: a PUT /api/users/:id by the owner of the account or by an admin
\* whose body carries firstName is answered 200 and leaves the value of
\* firstName in the column first_name.
C26_CamelCaseFieldIsStored ==
  [][\A r \in DOMAIN reqs :
       (/\ Steps(r) /\ reqs[r].op = "updateUser" /\ reqs'[r].pc = "done"
        /\ reqs[r].passed /\ reqs[r].user # NoUser
        /\ CanUpdateUser(reqs[r].user, reqs[r].id)
        /\ Has(reqs[r].raw, "firstName"))
       => /\ reqs'[r].status = 200
          /\ users'[reqs[r].id].first_name = reqs[r].raw["firstName"]]_vars

---------------------------------------------------------------------------
(* src/lib/backendApi.ts: BackendApiClient.request and refreshAccessToken *)

\* The slot of reqs that holds the browser client: token is this.accessToken,
\* body.refreshToken is this.refreshToken, loc counts the calls of one request()
\* and keeps the first response (data); status and message are what request()
\* returned.
ClientSlot == "c"
ClientSlots == RaceSlots \cup {ClientSlot}

ClientTokens ==
  [accessToken |-> JwtSign("JWT_SECRET", "u1", AccessTTL, 0),
   refreshToken |-> JwtSign("JWT_REFRESH_SECRET", "u1", LongRefreshTTL, 0)]

ClientRow ==
  [token |-> ClientTokens.refreshToken, user_id |-> "u1",
   expires_at |-> LongRefreshTTL, is_revoked |-> FALSE]

NoCalls == [refreshes |-> 0, retries |-> 0, data_status |-> 0, data_message |-> ""]

\* constructor: the tokens are read from localStorage
Client ==
  [Idle EXCEPT !.op = "client", !.pc = "start",
               !.token = ClientTokens.accessToken,
               !.body = [refreshToken |-> ClientTokens.refreshToken],
               !.loc = NoCalls]

\* request(): headers.Authorization = `Bearer ${this.accessToken}`; fetch(url)
\* of GET /auth/profile
ClSend ==
  LET c == reqs[ClientSlot]
  IN /\ c.pc \in {"start", "returned"}
     /\ Free("r1")
     /\ reqs' = [reqs EXCEPT
          !["r1"] = NewReq("profile", "auth", c.token, None, NoBody),
          ![ClientSlot] = [c EXCEPT !.pc = "wait", !.loc = NoCalls,
                                    !.status = 0, !.message = ""]]
     /\ UNCHANGED <<env, now, db, audit_logs, issued>>

\* response.status === 401 && data.message === 'Token expired' && this.refreshToken
NeedsRefresh(response, c) ==
  /\ response.status = 401
  /\ response.message = "Token expired"
  /\ c.body.refreshToken # NoToken

\* The first response: either refreshAccessToken() is called, which sends
\* POST /auth/refresh through request(), or data is returned.
ClReceive ==
  LET c == reqs[ClientSlot]
      response == reqs["r1"]
  IN /\ c.pc = "wait"
     /\ response.pc = "done"
     /\ response.op = "profile"
     /\ reqs' = [reqs EXCEPT
          !["r1"] = IF NeedsRefresh(response, c)
                    THEN NewReq("refresh", "refresh_token", NoToken, None,
                                [refreshToken |-> c.body.refreshToken])
                    ELSE Idle,
          ![ClientSlot] =
             IF NeedsRefresh(response, c)
             THEN [c EXCEPT !.pc = "refresh_wait",
                            !.loc = [c.loc EXCEPT !.refreshes = 1,
                                                  !.data_status = response.status,
                                                  !.data_message = response.message]]
             ELSE [c EXCEPT !.pc = "returned", !.status = response.status,
                            !.message = response.message]]
     /\ UNCHANGED <<env, now, db, audit_logs, issued>>

\* The retry goes through request() again instead of fetch().
ClRetried_ThroughRequest ==
  LET c == reqs[ClientSlot]
      response == reqs["r1"]
  IN /\ c.pc = "retry_wait"
     /\ response.pc = "done"
     /\ response.op = "profile"
     /\ reqs' = [reqs EXCEPT
          !["r1"] = IF NeedsRefresh(response, c)
                    THEN NewReq("refresh", "refresh_token", NoToken, None,
                                [refreshToken |-> c.body.refreshToken])
                    ELSE Idle,
          ![ClientSlot] =
             IF NeedsRefresh(response, c)
             THEN [c EXCEPT !.pc = "refresh_wait",
                            !.loc = [c.loc EXCEPT !.refreshes = @ + 1]]
             ELSE [c EXCEPT !.pc = "returned", !.status = response.status,
                            !.message = response.message]]
     /\ UNCHANGED <<env, now, db, audit_logs, issued>>

\* The response of /auth/refresh inside request(): a 401 "Token expired" would
\* call refreshAccessToken() again; any other response is returned to
\* refreshAccessToken(), which stores the new access token and lets request()
\* fetch once more, or calls clearTokens() and lets request() return data.
ClRefreshed ==
  LET c == reqs[ClientSlot]
      response == reqs["r1"]
      success == response.status = 200 /\ response.out.accessToken # NoToken
  IN /\ c.pc = "refresh_wait"
     /\ response.pc = "done"
     /\ response.op = "refresh"
     /\ reqs' = [reqs EXCEPT
          !["r1"] = IF NeedsRefresh(response, c)
                    THEN NewReq("refresh", "refresh_token", NoToken, None,
                                [refreshToken |-> c.body.refreshToken])
                    ELSE IF success
                    THEN NewReq("profile", "auth", response.out.accessToken,
                                None, NoBody)
                    ELSE Idle,
          ![ClientSlot] =
             IF NeedsRefresh(response, c)
             THEN [c EXCEPT !.loc = [c.loc EXCEPT !.refreshes = @ + 1]]
             ELSE IF success
             THEN [c EXCEPT !.pc = "retry_wait",
                            !.token = response.out.accessToken,
                            !.loc = [c.loc EXCEPT !.retries = @ + 1]]
             ELSE [c EXCEPT !.pc = "returned",
                            !.token = NoToken,
                            !.body = [refreshToken |-> NoToken],
                            !.status = c.loc.data_status,
                            !.message = c.loc.data_message]]
     /\ UNCHANGED <<env, now, db, audit_logs, issued>>

\* return retryResponse.json()
ClRetried ==
  LET c == reqs[ClientSlot]
      response == reqs["r1"]
  IN /\ c.pc = "retry_wait"
     /\ response.pc = "done"
     /\ response.op = "profile"
     /\ reqs' = [reqs EXCEPT
          !["r1"] = Idle,
          ![ClientSlot] = [c EXCEPT !.pc = "returned", !.status = response.status,
                                    !.message = response.message]]
     /\ UNCHANGED <<env, now, db, audit_logs, issued>>

ClientSteps == ClSend \/ ClReceive \/ ClRefreshed \/ ClRetried

(* The client against the server, with a second device of the same account *)

InitClient ==
  /\ env = [JWT_EXPIRES_IN |-> AccessTTL, JWT_REFRESH_EXPIRES_IN |-> LongRefreshTTL]
  /\ now = 0
  /\ users = SeedUsers
  /\ refresh_tokens = {ClientRow}
  /\ messages = NoMessages
  /\ message_tags = {}
  /\ audit_logs = 0
  /\ issued = Hand(ClientTokens)
  /\ reqs = [r \in ClientSlots |-> IF r = ClientSlot THEN Client ELSE Idle]

\* The second device logs out with the refresh token the client holds.
OtherDevice ==
  \E token \in {t \in issued : t.secret = "JWT_SECRET"} :
    StartLogout("r2", token, ClientTokens.refreshToken)

NextClient ==
  \/ Tick
  \/ ClientSteps
  \/ Authenticate("r1") \/ ProfileSelect("r1") \/ RefreshSteps("r1")
  \/ OtherDevice
  \/ Authenticate("r2") \/ LogoutSteps("r2")

SpecClient == InitClient /\ [][NextClient]_vars

\* C29: one call of request() sends at most one POST /auth/refresh and at most
\* one retry. The refresh is sent only on a 401 "Token expired" while a refresh
\* token is held; when it fails both tokens are cleared and the first response
\* is what request() returns; when it succeeds the new access token is stored,
\* the request is sent once more and the response of the retry is returned,
\* which is a 200 whenever the new token has not expired by then. With an active
\* account the refresh fails only on a refresh token that is revoked or expired.
C29_OneRefreshOneRetry ==
  [][LET c == reqs[ClientSlot]
         d == reqs'[ClientSlot]
         response == reqs["r1"]
     IN /\ d.loc.refreshes <= 1 /\ d.loc.retries <= 1
        /\ d.loc.retries <= d.loc.refreshes
        /\ (c.pc = "wait" /\ d.pc = "refresh_wait") =>
             /\ response.status = 401 /\ response.message = "Token expired"
             /\ c.body.refreshToken # NoToken
        /\ (c.pc = "refresh_wait" /\ d.pc = "returned") =>
             /\ response.status # 200
             /\ \/ JwtVerify(c.body.refreshToken, "JWT_REFRESH_SECRET", now) # "ok"
                \/ TokenRecordRejected(SelectRefreshToken(c.body.refreshToken))
             /\ d.token = NoToken /\ d.body.refreshToken = NoToken
             /\ d.status = c.loc.data_status /\ d.message = c.loc.data_message
             /\ d.status = 401 /\ d.message = "Token expired"
        /\ (c.pc = "refresh_wait" /\ d.pc = "retry_wait") =>
             /\ response.status = 200
             /\ d.token = response.out.accessToken
             /\ reqs'["r1"].op = "profile" /\ reqs'["r1"].token = d.token
        /\ (c.pc = "retry_wait" /\ d.pc = "returned") =>
             /\ d.status = response.status /\ d.message = response.message
             /\ now < d.token.exp => d.status = 200
    ]_vars

C29_Witness ==
  LET c == reqs[ClientSlot]
  IN /\ c.pc = "returned"
     /\ c.loc.refreshes = 1 /\ c.loc.retries = 1
     /\ c.status = 200
     /\ c.token # ClientTokens.accessToken

\* A refresh that fails: the client is left without tokens.
C29_WitnessCleared ==
  LET c == reqs[ClientSlot]
  IN /\ c.pc = "returned"
     /\ c.loc.refreshes = 1 /\ c.loc.retries = 0
     /\ c.token = NoToken

---------------------------------------------------------------------------
(* The account of a super administrator *)

IsSuperAdmin(row) == row.id \notin {None, "deleted"} /\ row.role = "super_admin"

\* The account id is deleted, or its role or status is changed, in this step
Touched(id) ==
  \/ users'[id].id # id
  \/ users'[id].role # users[id].role
  \/ users'[id].status # users[id].status

\* C30: the account of a super_admin is not deleted, and its role and status
\* are not changed, by a request whose caller has role admin; and no step
\* gives the role super_admin to an account that did not have it.
C30_SuperAdminProtected ==
  [][ \A id \in UserIds :
        /\ (users[id].id = id /\ IsSuperAdmin(users[id]) /\ Touched(id))
             => ~ \E r \in DOMAIN reqs : Steps(r) /\ reqs[r].user.role = "admin"
        /\ (users'[id].id = id /\ IsSuperAdmin(users'[id]))
             => (users[id].id = id /\ IsSuperAdmin(users[id])) ]_vars

\* The parts of C30, one at a time
C30_NotDeletedByAdmin ==
  [][ \A id \in UserIds :
        (users[id].id = id /\ IsSuperAdmin(users[id]) /\ users'[id].id # id)
          => ~ \E r \in DOMAIN reqs : Steps(r) /\ reqs[r].user.role = "admin" ]_vars

C30_NotChangedByAdmin ==
  [][ \A id \in UserIds :
        (users[id].id = id /\ IsSuperAdmin(users[id]) /\ users'[id].id = id /\ Touched(id))
          => ~ \E r \in DOMAIN reqs : Steps(r) /\ reqs[r].user.role = "admin" ]_vars

C30_NeverAssigned ==
  [][ \A id \in UserIds :
        (users'[id].id = id /\ IsSuperAdmin(users'[id]))
          => (users[id].id = id /\ IsSuperAdmin(users[id])) ]_vars

=============================================================================
